---- MODULE Spec2Model ----
(***************************************************************************)
(* Verification model of the blazer "base" package (package base, the     *)
(* low-level B2 client): the error classifier (Action, MaxRetries,        *)
(* MaxReuploads, Backoff), the large-file upload session (LargeFile,      *)
(* FileChunk.UploadPart, LargeFile.FinishLargeFile), keepFinalBytes, the   *)
(* request executor (makeRequest, DownloadFileByName, makeNetRequest,      *)
(* mkErr), B2.Update and the upload leases (FileChunk.Reload, URL.Reload); *)
(* and of the retry helpers retry.Do and retry.Backoff.                    *)
(***************************************************************************)
EXTENDS Integers, Sequences, FiniteSets, TLC

(***************************************************************************)
(* 64-bit integers.  Go's int (on 64-bit builds), int64 and time.Duration  *)
(* are 64-bit two's complement integers whose arithmetic wraps.  A value   *)
(* is a little-endian sequence of IntBytes digits in base 256.             *)
(***************************************************************************)
IntBytes == 8

\* time.Second, in nanoseconds (the unit of time.Duration)
Second == 1000000000

\* the len low base-256 digits of the natural number n
RECURSIVE NatLimbs(_, _)
NatLimbs(n, len) ==
    IF len = 0 THEN <<>> ELSE <<n % 256>> \o NatLimbs(n \div 256, len - 1)

\* digit-wise sum from digit i on, wrapping at the length of a
RECURSIVE AddLimbs(_, _, _, _)
AddLimbs(a, b, i, carry) ==
    IF i > Len(a) THEN <<>>
    ELSE LET s == a[i] + b[i] + carry
         IN  <<s % 256>> \o AddLimbs(a, b, i + 1, s \div 256)

\* two's complement negation
NegLimbs(a) ==
    AddLimbs([i \in 1..Len(a) |-> 255 - a[i]], NatLimbs(1, Len(a)), 1, 0)

\* sum of a[i] * b[k + 1 - i] for i in 1..k: column k of the schoolbook product
RECURSIVE ColSum(_, _, _, _)
ColSum(a, b, k, i) ==
    IF i > k THEN 0 ELSE a[i] * b[k + 1 - i] + ColSum(a, b, k, i + 1)

\* product from column k on, wrapping at the length of a
RECURSIVE MulLimbs(_, _, _, _)
MulLimbs(a, b, k, carry) ==
    IF k > Len(a) THEN <<>>
    ELSE LET s == ColSum(a, b, k, 1) + carry
         IN  <<s % 256>> \o MulLimbs(a, b, k + 1, s \div 256)

\* the int64 with the value of the (small) integer n
Int64(n) ==
    IF n >= 0 THEN NatLimbs(n, IntBytes) ELSE NegLimbs(NatLimbs(-n, IntBytes))

IsNeg(a) == a[Len(a)] >= 128
IsPos(a) == ~IsNeg(a) /\ \E i \in 1..Len(a) : a[i] # 0

\* a + b and a * b of Go: the low 64 bits of the result
Add64(a, b) == AddLimbs(a, b, 1, 0)
Mul64(a, b) == MulLimbs(a, b, 1, 0)

\* the same number in len digits
SignExtend(a, len) ==
    [i \in 1..len |-> IF i <= Len(a) THEN a[i] ELSE IF IsNeg(a) THEN 255 ELSE 0]

\* the product of two int64 as a number: 128 bits hold it exactly
ExactProduct(a, b) ==
    MulLimbs(SignExtend(a, 2 * IntBytes), SignExtend(b, 2 * IntBytes), 1, 0)

\* the int64 written by the decimal digits ds, most significant first
RECURSIVE Dec64(_)
Dec64(ds) ==
    IF ds = <<>> THEN Int64(0)
    ELSE Add64(Mul64(Dec64(SubSeq(ds, 1, Len(ds) - 1)), Int64(10)),
               Int64(ds[Len(ds)]))

(***************************************************************************)
(* The error classifier.                                                   *)
(***************************************************************************)
\* type ErrAction
ReAuthenticate == 0
AttemptNewUpload == 1
Retry == 2
Punt == 3

ErrAction == {ReAuthenticate, AttemptNewUpload, Retry, Punt}

\* strings.HasPrefix
HasPrefix(s, prefix) ==
    Len(s) >= Len(prefix) /\ SubSeq(s, 1, Len(prefix)) = prefix

\* err.(b2err): the dynamic type of the error value is b2err
IsB2err(err) == err.kind = "b2err"

IsUploadMethod(method) == method = "b2_upload_file" \/ method = "b2_upload_part"

\* Action without its rule for the 5xx answers to upload calls
ActionNoUploadRule(err) ==
    IF ~IsB2err(err) THEN Punt
    ELSE IF IsPos(err.retry) THEN Retry
    ELSE CASE err.code = 401 ->
                CASE err.method = "b2_authorize_account" -> Punt
                  [] IsUploadMethod(err.method) -> AttemptNewUpload
                  [] OTHER -> ReAuthenticate
           [] err.code = 400 ->
                IF /\ err.method = "b2_upload_file"
                   /\ HasPrefix(err.msg, "more than one upload using auth token")
                THEN AttemptNewUpload
                ELSE Punt
           [] err.code = 408 -> AttemptNewUpload
           [] err.code \in {429, 500, 503} -> Retry
           [] OTHER -> Punt

\* Action without the case of b2_authorize_account under 401
ActionReauthAlways(err) ==
    IF ~IsB2err(err) THEN Punt
    ELSE IF IsPos(err.retry) THEN Retry
    ELSE IF err.code >= 500 /\ err.code < 600 /\ IsUploadMethod(err.method)
         THEN AttemptNewUpload
    ELSE CASE err.code = 401 ->
                CASE IsUploadMethod(err.method) -> AttemptNewUpload
                  [] OTHER -> ReAuthenticate
           [] err.code = 400 ->
                IF /\ err.method = "b2_upload_file"
                   /\ HasPrefix(err.msg, "more than one upload using auth token")
                THEN AttemptNewUpload
                ELSE Punt
           [] err.code = 408 -> AttemptNewUpload
           [] err.code \in {429, 500, 503} -> Retry
           [] OTHER -> Punt

\* Action with the rule of 400 applied to both upload methods
ActionAnyUpload400(err) ==
    IF ~IsB2err(err) THEN Punt
    ELSE IF IsPos(err.retry) THEN Retry
    ELSE IF err.code >= 500 /\ err.code < 600 /\ IsUploadMethod(err.method)
         THEN AttemptNewUpload
    ELSE CASE err.code = 401 ->
                CASE err.method = "b2_authorize_account" -> Punt
                  [] IsUploadMethod(err.method) -> AttemptNewUpload
                  [] OTHER -> ReAuthenticate
           [] err.code = 400 ->
                IF /\ IsUploadMethod(err.method)
                   /\ HasPrefix(err.msg, "more than one upload using auth token")
                THEN AttemptNewUpload
                ELSE Punt
           [] err.code = 408 -> AttemptNewUpload
           [] err.code \in {429, 500, 503} -> Retry
           [] OTHER -> Punt

\* Action taking an error of another type for a transient one
ActionRetryUnknown(err) ==
    IF ~IsB2err(err) THEN Retry
    ELSE IF IsPos(err.retry) THEN Retry
    ELSE IF err.code >= 500 /\ err.code < 600 /\ IsUploadMethod(err.method)
         THEN AttemptNewUpload
    ELSE CASE err.code = 401 ->
                CASE err.method = "b2_authorize_account" -> Punt
                  [] IsUploadMethod(err.method) -> AttemptNewUpload
                  [] OTHER -> ReAuthenticate
           [] err.code = 400 ->
                IF /\ err.method = "b2_upload_file"
                   /\ HasPrefix(err.msg, "more than one upload using auth token")
                THEN AttemptNewUpload
                ELSE Punt
           [] err.code = 408 -> AttemptNewUpload
           [] err.code \in {429, 500, 503} -> Retry
           [] OTHER -> Punt

\* func Action(err error) ErrAction
Action(err) ==
    IF ~IsB2err(err) THEN Punt
    ELSE IF IsPos(err.retry) THEN Retry
    ELSE IF err.code >= 500 /\ err.code < 600 /\ IsUploadMethod(err.method)
         THEN AttemptNewUpload
    ELSE CASE err.code = 401 ->
                CASE err.method = "b2_authorize_account" -> Punt
                  [] IsUploadMethod(err.method) -> AttemptNewUpload
                  [] OTHER -> ReAuthenticate
           [] err.code = 400 ->
                IF /\ err.method = "b2_upload_file"
                   /\ HasPrefix(err.msg, "more than one upload using auth token")
                THEN AttemptNewUpload
                ELSE Punt
           [] err.code = 408 -> AttemptNewUpload
           [] err.code \in {429, 500, 503} -> Retry
           [] OTHER -> Punt

\* MaxReuploads giving an error of another type no reupload
MaxReuploadsNoDefault(err) ==
    IF ~IsB2err(err) THEN 0
    ELSE IF IsUploadMethod(err.method) THEN 5
    ELSE 0

\* func MaxReuploads(err error) uint
MaxReuploads(err) ==
    IF ~IsB2err(err) THEN 5
    ELSE IF IsUploadMethod(err.method) THEN 5
    ELSE 0

\* MaxRetries without the budget of the download calls
MaxRetriesNoDownload(err) ==
    IF ~IsB2err(err) THEN 0
    ELSE IF IsUploadMethod(err.method) THEN 20
    ELSE 5

\* func MaxRetries(err error) uint
MaxRetries(err) ==
    IF ~IsB2err(err) THEN 0
    ELSE IF IsUploadMethod(err.method) THEN 20
    ELSE IF \/ err.method = "b2_download_file_by_id"
            \/ err.method = "b2_download_file_by_name" THEN 20
    ELSE 5

\* func Backoff(err error) time.Duration
Backoff(err) ==
    IF ~IsB2err(err) THEN Int64(0)
    ELSE Mul64(err.retry, Int64(Second))

(***************************************************************************)
(* keepFinalBytes: the reader UploadPart wraps around the part's stream    *)
(* when the hash argument is "hex_digits_at_end".  A byte is a character   *)
(* and a byte slice a string; NUL stands for the zero byte.                *)
(***************************************************************************)
\* len(keepFinalBytes.sha)
ShaLen == 40

NUL == "."

RECURSIVE Repeat(_, _)
Repeat(s, n) == IF n <= 0 THEN "" ELSE s \o Repeat(s, n - 1)

Max(a, b) == IF a >= b THEN a ELSE b
Min(a, b) == IF a <= b THEN a ELSE b

\* &keepFinalBytes{r: r, remain: size}
NewKeepFinalBytes(size) ==
    [remain |-> size, sha |-> Repeat(NUL, ShaLen), panic |-> FALSE]

\* Read copying to the front of sha whatever is left to read
KeepFinalBytesReadFromStart(k, p) ==
    LET n == Len(p) IN
    IF k.remain - n > ShaLen THEN [k EXCEPT !.remain = @ - n]
    ELSE LET pi == Max(0, k.remain - ShaLen)
             pe == n
             ki == 0
             ke == Min(ShaLen, pe - pi)
             cnt == Min(ke - ki, pe - pi)
         IN  IF ki > ke \/ ke > ShaLen \/ pi > pe
             THEN [k EXCEPT !.panic = TRUE]
             ELSE [k EXCEPT !.sha = SubSeq(@, 1, ki)
                                      \o SubSeq(p, pi + 1, pi + cnt)
                                      \o SubSeq(@, ki + cnt + 1, ShaLen),
                            !.remain = @ - n]

\* func (k *keepFinalBytes) Read(p []byte) (int, error), after k.r.Read has
\* put the n bytes p into the caller's buffer.  A slice expression whose
\* indices are out of range panics.
KeepFinalBytesRead(k, p) ==
    LET n == Len(p) IN
    IF k.remain - n > ShaLen THEN [k EXCEPT !.remain = @ - n]
    ELSE LET pi == Max(0, k.remain - ShaLen)
             pe == n
             ki == Max(0, ShaLen - k.remain)
             ke == n - k.remain + ShaLen
             cnt == Min(ke - ki, pe - pi)
         IN  IF ki > ke \/ ke > ShaLen \/ pi > pe
             THEN [k EXCEPT !.panic = TRUE]
             ELSE [k EXCEPT !.sha = SubSeq(@, 1, ki)
                                      \o SubSeq(p, pi + 1, pi + cnt)
                                      \o SubSeq(@, ki + cnt + 1, ShaLen),
                            !.remain = @ - n]

\* the transport reads the request body to its end, chunk bytes at a time,
\* the last read returning 0 bytes and io.EOF
RECURSIVE ReadBody(_, _, _)
ReadBody(k, body, chunk) ==
    IF k.panic THEN k
    ELSE IF body = "" THEN KeepFinalBytesRead(k, "")
    ELSE LET n == Min(chunk, Len(body))
         IN  ReadBody(KeepFinalBytesRead(k, SubSeq(body, 1, n)),
                      SubSeq(body, n + 1, Len(body)), chunk)

(***************************************************************************)
(* The large-file session.                                                 *)
(***************************************************************************)
\* the most calls on one session (UploadPart and FinishLargeFile together)
MaxCalls == 3

\* the part numbers a caller passes; 0 is not a part number of the service
PartNumbers == 0..2

\* the caller's goroutines: each uploader holds a FileChunk of its own and
\* makes its calls one after the other, and so does the finisher
Uploaders == {"u1", "u2"}
Finishers == {"f1"}
Goroutines == Uploaders \cup Finishers

\* the value a variable holds when it holds nothing
None == [kind |-> "none"]

\* nobody holds sync.Mutex mu
Unlocked == ""

\* the hash argument that asks for the hash to be read off the stream's end
HexDigitsAtEnd == "hex_digits_at_end"

\* the inputs of an upload of part index by goroutine g: its size, its
\* stream and the hash the caller knows
RECURSIVE Pow2(_)
Pow2(n) == IF n = 0 THEN 1 ELSE 2 * Pow2(n - 1)
PartSize(index) == ShaLen + Pow2(index)
StreamData ==
    "7c4a8d09ca3762af61e59520943dc26494f8941bda39a3ee5e6b4b0d3255bfef95601890afd80709"
    \o "356a192b7913b04c54574d18c28d46e6395428ab"
PartBody(index) == SubSeq(StreamData, index + 1, index + PartSize(index))
KnownHash(g, index) == g \o "-" \o SubSeq("0123456789", index + 1, index + 1)
\* the hash argument of goroutine g: u1 hashes a part before it uploads it,
\* every other uploader ends the part's stream with the hash
HashArg(g, index) == IF g = "u1" THEN KnownHash(g, index) ELSE HexDigitsAtEnd

\* the hashes of a resumed upload, as the caller knows them
SeenHash(k) == "seen-" \o SubSeq("0123456789", k + 1, k + 1)
SeenKeys == {{}, {1, 2}, {0, 1}, {1, 2, 4}}
SeenMaps == {[k \in S |-> SeenHash(k)] : S \in SeenKeys}
ResumeSizes == {0, 1000}

\* chunk sizes the transport reads a body in
ChunkSizes == {7, 4096}

\* the errors makeRequest returns for a call of method
B2Err(method, code) ==
    [kind |-> "b2err", msg |-> "", method |-> method, retry |-> Int64(0),
     code |-> code, msgCode |-> ""]
RequestErrs(method) == {B2Err(method, 503), [kind |-> "context.Canceled"]}

\* a map with key k set to v
MapSet(m, k, v) ==
    [x \in DOMAIN m \cup {k} |-> IF x = k THEN v ELSE m[x]]

\* the orders in which a range loop can visit the keys S of a map
RECURSIVE Orders(_)
Orders(S) ==
    IF S = {} THEN {<<>>}
    ELSE UNION {{<<x>> \o o : o \in Orders(S \ {x})} : x \in S}

\* a slice is a function on 0..len-1
SliceLen(a) == Cardinality(DOMAIN a)

\* FinishLoop naming the slot of the slice instead of the key
RECURSIVE FinishLoopNamesSlot(_, _, _, _)
FinishLoopNamesSlot(h, order, i, Hashes) ==
    IF i > Len(order) THEN [outcome |-> "built", k |-> 0, Hashes |-> Hashes]
    ELSE LET k == order[i] IN
         IF SliceLen(Hashes) < k
         THEN [outcome |-> "invalid index", k |-> k - 1, Hashes |-> Hashes]
         ELSE IF k - 1 \notin DOMAIN Hashes
         THEN [outcome |-> "panic", k |-> k, Hashes |-> Hashes]
         ELSE FinishLoopNamesSlot(h, order, i + 1,
                                  [Hashes EXCEPT ![k - 1] = h[k]])

\* the loop of FinishLargeFile over l.hashes, visiting the keys in order,
\* from the i-th on; an index expression out of range panics
RECURSIVE FinishLoop(_, _, _, _)
FinishLoop(h, order, i, Hashes) ==
    IF i > Len(order) THEN [outcome |-> "built", k |-> 0, Hashes |-> Hashes]
    ELSE LET k == order[i] IN
         IF SliceLen(Hashes) < k
         THEN [outcome |-> "invalid index", k |-> k, Hashes |-> Hashes]
         ELSE IF k - 1 \notin DOMAIN Hashes
         THEN [outcome |-> "panic", k |-> k, Hashes |-> Hashes]
         ELSE FinishLoop(h, order, i + 1, [Hashes EXCEPT ![k - 1] = h[k]])

\* a slice as long as the largest part number of the map
MakeHashesMaxKey(h) ==
    [i \in 0..(Max(0, IF DOMAIN h = {} THEN 0
                      ELSE CHOOSE k \in DOMAIN h : \A j \in DOMAIN h : j <= k)
               - 1) |-> ""]

\* make([]string, len(l.hashes))
MakeHashes(h) == [i \in 0..(Cardinality(DOMAIN h) - 1) |-> ""]

VARIABLES
    err,      \* classifier: the error value handed to the classifier
    res,      \* classifier: the results of the functions called on err
    lf,       \* "none" until StartLargeFile or CompileParts made the session
    size,     \* LargeFile.size
    hashes,   \* LargeFile.hashes
    mu,       \* LargeFile.mu: the goroutine holding it, or Unlocked
    seen,     \* the caller's map given to CompileParts
    calls,    \* each goroutine's current call: where it is, its locals
    ncalls,   \* history: the number of calls begun on the session
    resume,   \* history: the size given to CompileParts, 0 after StartLargeFile
    done,     \* history: the arguments of the UploadPart calls that returned
              \* without error, in the order they returned
    life,     \* history: "Started", then "Finished" once FinishLargeFile
              \* succeeded or "Cancelled" once CancelLargeFile was called
    hashesMap,   \* the map object LargeFile.hashes refers to
    callerSeen,  \* the caller's map object, as it is now
    kfb,      \* keepFinalBytes: the reader's fields remain and sha
    stream,   \* keepFinalBytes: the bytes of the source k.r, all of them
    rest,     \* keepFinalBytes: the bytes of the source not yet read
    declared, \* history: the size the keepFinalBytes was made with
    do,       \* retry.Do: where the call is, n, config and what it returned
    ctxErr,   \* retry.Do: ctx.Err(), nil until the context is cancelled
    timer,    \* retry.Do: the channel config.after returned
    doLog,    \* history: what Do called, and where Do was at the cancel
    wait,     \* retry.Backoff: the duration d it is called with
    backoff,  \* retry.Backoff: what the call computed and returned
    reqID,    \* var reqID int64, the request-correlation counter
    reqs,     \* executor: each caller's current call of makeRequest or
              \* DownloadFileByName: where it is, its locals, its result
    nreqs,    \* history: the number of executor calls begun
    issued,   \* history: the request IDs stamped, in the order of stamping
    b2,       \* the B2 session callers share
    upd,      \* B2.Update: where the call is, and its argument n
    rd,       \* GetUploadPartURL: where the call is, and what it has read
    lease,    \* an upload lease (FileChunk or URL): its endpoint and token
    rl,       \* Reload of the lease: where the call is, n, what it returned
    up,       \* an upload on the lease: where it is, and the request it sent
    nleases   \* history: the number of leases the service has issued

vars ==
    <<err, res, lf, size, hashes, mu, seen, calls, ncalls, resume, done,
      life, hashesMap, callerSeen, kfb, stream, rest,
      declared, do, ctxErr, timer, doLog, wait, backoff,
      reqID, reqs, nreqs, issued, b2, upd, rd, lease, rl, up, nleases>>
clsVars == <<err, res>>
lfVars ==
    <<lf, size, hashes, mu, seen, calls, ncalls, resume, done, life,
      hashesMap, callerSeen>>
kfbVars == <<kfb, stream, rest, declared>>
\* what the callers of the classifier, the calls on a large-file session and
\* the reads of a keepFinalBytes leave alone
doVars == <<do, ctxErr, timer, doLog>>
backoffVars == <<wait, backoff>>
execVars == <<reqID, reqs, nreqs, issued>>
updVars == <<b2, upd, rd>>
leaseVars == <<lease, rl, up, nleases>>
NotClassifier ==
    <<lfVars, kfbVars, doVars, backoffVars,
      execVars, updVars, leaseVars>>
NotLargeFile ==
    <<clsVars, kfbVars, doVars, backoffVars,
      execVars, updVars, leaseVars>>
NotKeepFinalBytes ==
    <<clsVars, lfVars, doVars, backoffVars,
      execVars, updVars, leaseVars>>
NotDo ==
    <<clsVars, lfVars, kfbVars, backoffVars,
      execVars, updVars, leaseVars>>
NotBackoff ==
    <<clsVars, lfVars, kfbVars, doVars,
      execVars, updVars, leaseVars>>
NotExec ==
    <<clsVars, lfVars, kfbVars, doVars, backoffVars, updVars, leaseVars>>
NotLease ==
    <<clsVars, lfVars, kfbVars, doVars, backoffVars, execVars, updVars>>
NotUpdate ==
    <<clsVars, lfVars, kfbVars, doVars, backoffVars, execVars, leaseVars>>

(***************************************************************************)
(* The classifier's callers: an error value, and the four functions        *)
(* called on it in any order.                                              *)
(***************************************************************************)
Methods ==
    {"", "b2_authorize_account", "b2_upload_file", "b2_upload_part",
     "b2_download_file_by_name", "b2_download_file_by_id",
     "b2_get_upload_part_url", "b2_finish_large_file"}
Codes == {0, 400, 401, 403, 408, 429, 499, 500, 501, 503, 599, 600}
Msgs ==
    {"", "more than one upload using auth token abc",
     "found more than one upload using auth token abc"}
MsgCodes == {"", "bad_request"}
\* retry-after values: 9223372036 is the largest int64 number of seconds
\* whose nanoseconds an int64 holds
Retries ==
    {Int64(-1), Int64(0), Int64(1), Int64(30),
     Dec64(<<9, 2, 2, 3, 3, 7, 2, 0, 3, 6>>),
     Dec64(<<9, 2, 2, 3, 3, 7, 2, 0, 3, 7>>)}

\* type b2err struct
B2Errs ==
    [kind : {"b2err"}, msg : Msgs, method : Methods, retry : Retries,
     code : Codes, msgCode : MsgCodes]
\* error values of other dynamic types, the nil error among them
OtherErrs ==
    {[kind |-> "nil"], [kind |-> "context.Canceled"],
     [kind |-> "context.DeadlineExceeded"],
     [kind |-> "x509.UnknownAuthorityError"],
     [kind |-> "json.MarshalerError"], [kind |-> "fmt.Errorf"]}
Errs == B2Errs \cup OtherErrs

NilErr == [kind |-> "nil"]

\* a goroutine that has made no call yet
NoCall ==
    [op |-> "", pc |-> "idle", index |-> 0, sha1 |-> "", size |-> 0,
     body |-> "", r |-> None, tmp |-> 0, req |-> None, ret |-> None,
     began |-> ""]

NoSession ==
    /\ lf = "none"
    /\ size = 0
    /\ hashes = <<>>
    /\ mu = Unlocked
    /\ seen = <<>>
    /\ calls = [g \in Goroutines |-> NoCall]
    /\ ncalls = 0
    /\ resume = 0
    /\ done = <<>>
    /\ life = ""
    /\ hashesMap = ""
    /\ callerSeen = <<>>

\* no keepFinalBytes yet
NoReader ==
    /\ kfb = None
    /\ stream = ""
    /\ rest = ""
    /\ declared = 0

\* no call of retry.Backoff
NoBackoff ==
    /\ wait = Int64(0)
    /\ backoff = None

\* no call of retry.Do
NoDo ==
    /\ do = None
    /\ ctxErr = NilErr
    /\ timer = "none"
    /\ doLog = None

\* the goroutines calling the request executor
Callers == {"c1", "c2"}

\* a caller that has made no call yet
NoRequest == [pc |-> "idle"]

\* no call of the request executor: reqID is a package variable, zero when
\* the program starts
NoExec ==
    /\ reqID = 0
    /\ reqs = [c \in Callers |-> NoRequest]
    /\ nreqs = 0
    /\ issued = <<>>

\* no session
NoUpdate ==
    /\ b2 = None
    /\ upd = None
    /\ rd = None

\* no lease
NoLease ==
    /\ lease = None
    /\ rl = None
    /\ up = None
    /\ nleases = 0

InitClassifier ==
    /\ err \in Errs
    /\ res = <<>>
    /\ NoSession
    /\ NoExec
    /\ NoLease
    /\ NoUpdate
    /\ NoReader
    /\ NoDo
    /\ NoBackoff

Call(f, v) ==
    /\ f \notin DOMAIN res
    /\ res' = res @@ (f :> v)
    /\ UNCHANGED err
    /\ UNCHANGED NotClassifier

CallAction == Call("Action", Action(err))
CallBackoff == Call("Backoff", Backoff(err))
CallMaxRetries == Call("MaxRetries", MaxRetries(err))
CallMaxReuploads == Call("MaxReuploads", MaxReuploads(err))

NextClassifier ==
    \/ CallAction
    \/ CallBackoff
    \/ CallMaxRetries
    \/ CallMaxReuploads

SpecClassifier == InitClassifier /\ [][NextClassifier]_vars

(***************************************************************************)
(* Claims about the classifier, checked under SpecClassifier.              *)
(***************************************************************************)
Called(f) == f \in DOMAIN res
IsServiceError == err.kind = "b2err"
UploadCalls == {"b2_upload_file", "b2_upload_part"}
DownloadCalls == {"b2_download_file_by_name", "b2_download_file_by_id"}
IsUpload5xx == err.method \in UploadCalls /\ err.code \in 500..599
MoreThanOneUpload == HasPrefix(err.msg, "more than one upload using auth token")

\* C1 as stated: for every ServiceError of b2_upload_file or b2_upload_part
\* with a status in [500,600), Action returns AttemptNewUpload, whatever the
\* message, the message code and the retry-after value are.
C1_AsStated ==
    (Called("Action") /\ IsServiceError /\ IsUpload5xx)
        => res["Action"] = AttemptNewUpload

\* C1 amended: for every ServiceError of b2_upload_file or b2_upload_part with
\* a status in [500,600) and a retry-after value that is not positive, Action
\* returns AttemptNewUpload, whatever the message and the message code are.
C1_Upload5xxNewUpload ==
    (Called("Action") /\ IsServiceError /\ IsUpload5xx /\ ~IsPos(err.retry))
        => res["Action"] = AttemptNewUpload

C1_Witness ==
    /\ Called("Action")
    /\ IsServiceError
    /\ err.method = "b2_upload_part"
    /\ err.code = 503
    /\ err.retry = Int64(0)
    /\ err.msgCode = "bad_request"
    /\ res["Action"] = AttemptNewUpload

\* C2: for every ServiceError with a positive retry-after value r, whatever
\* its status and method, Action returns Retry and Backoff returns exactly r
\* seconds: the duration is the number r * 10^9 of nanoseconds.
C2_RetryAfterExact ==
    (IsServiceError /\ IsPos(err.retry))
        => /\ Called("Action") => res["Action"] = Retry
           /\ Called("Backoff") =>
                  SignExtend(res["Backoff"], 2 * IntBytes)
                      = ExactProduct(err.retry, Int64(Second))

\* C3: for a ServiceError with status 401 and no positive retry-after, Action
\* returns Punt for b2_authorize_account, AttemptNewUpload for b2_upload_file
\* and b2_upload_part, and ReAuthenticate for every other method.
C3_Unauthorized ==
    (Called("Action") /\ IsServiceError /\ err.code = 401 /\ ~IsPos(err.retry))
        => res["Action"] =
              CASE err.method = "b2_authorize_account" -> Punt
                [] err.method \in UploadCalls -> AttemptNewUpload
                [] OTHER -> ReAuthenticate

C3_Witness ==
    /\ Called("Action")
    /\ IsServiceError
    /\ err.code = 401
    /\ err.retry = Int64(0)
    /\ err.method = "b2_authorize_account"
    /\ res["Action"] = Punt

\* C4: for a ServiceError with no positive retry-after that is neither a 5xx
\* of an upload call nor a 401: status 400 gives AttemptNewUpload when the
\* method is b2_upload_file and the message begins with the service's "more
\* than one upload using auth token", and Punt otherwise; 408 gives
\* AttemptNewUpload; 429, 500 and 503 give Retry; every other status Punt.
C4_OtherStatuses ==
    (/\ Called("Action")
     /\ IsServiceError
     /\ ~IsPos(err.retry)
     /\ ~IsUpload5xx
     /\ err.code # 401)
        => res["Action"] =
              CASE err.code = 400 ->
                     IF err.method = "b2_upload_file" /\ MoreThanOneUpload
                     THEN AttemptNewUpload ELSE Punt
                [] err.code = 408 -> AttemptNewUpload
                [] err.code \in {429, 500, 503} -> Retry
                [] OTHER -> Punt

C4_Witness ==
    /\ Called("Action")
    /\ IsServiceError
    /\ err.retry = Int64(-1)
    /\ err.code = 400
    /\ err.method = "b2_upload_part"
    /\ MoreThanOneUpload
    /\ res["Action"] = Punt

\* C5: for an error that is no ServiceError, Action returns Punt and Backoff
\* returns 0; for every error value Action returns one of the four actions.
C5_OtherErrors ==
    /\ Called("Action") => res["Action"] \in ErrAction
    /\ ~IsServiceError =>
          /\ Called("Action") => res["Action"] = Punt
          /\ Called("Backoff") => res["Backoff"] = Int64(0)

C5_Witness ==
    /\ err.kind = "json.MarshalerError"
    /\ Called("Action")
    /\ Called("Backoff")
    /\ res["Action"] = Punt

\* C6: MaxRetries returns 20 for the upload and the download calls, 5 for a
\* ServiceError of every other method and 0 for an error that is no
\* ServiceError, whatever the status is.
C6_MaxRetries ==
    Called("MaxRetries")
        => res["MaxRetries"] =
              IF ~IsServiceError THEN 0
              ELSE IF err.method \in UploadCalls \cup DownloadCalls THEN 20
              ELSE 5

C6_Witness ==
    /\ Called("MaxRetries")
    /\ IsServiceError
    /\ err.method = "b2_download_file_by_id"
    /\ err.code = 403
    /\ res["MaxRetries"] = 20

\* C7: MaxReuploads returns 5 for a ServiceError of b2_upload_file or
\* b2_upload_part, 0 for a ServiceError of any other method, and 5 for an
\* error that is no ServiceError.
C7_MaxReuploads ==
    Called("MaxReuploads")
        => res["MaxReuploads"] =
              IF ~IsServiceError THEN 5
              ELSE IF err.method \in UploadCalls THEN 5
              ELSE 0

C7_Witness ==
    /\ Called("MaxReuploads")
    /\ err.kind = "fmt.Errorf"
    /\ res["MaxReuploads"] = 5

(***************************************************************************)
(* A keepFinalBytes over a source, and the reads its user makes of it.     *)
(***************************************************************************)
\* lengths of the source, sizes the reader is told and sizes of the reads
StreamLengths == {0, 1, 2, 39, 40, 41, 47, 80, 81, 120}
DeclaredSizes(L) == {n \in {L - 1, L, L + 1} : n >= 0}
ReadSizes == {0, 1, 7, 39, 40, 41, 4096}

InitKeepFinalBytes ==
    /\ err = NilErr
    /\ res = <<>>
    /\ NoSession
    /\ NoExec
    /\ NoLease
    /\ NoUpdate
    /\ NoDo
    /\ NoBackoff
    /\ \E L \in StreamLengths :
          /\ stream = SubSeq(StreamData, 1, L)
          /\ declared \in DeclaredSizes(L)
    /\ kfb = NewKeepFinalBytes(declared)
    /\ rest = stream

\* one call of Read with a buffer of n bytes: the source gives what it has
\* left, up to n bytes
Read ==
    /\ kfb # None
    /\ ~kfb.panic
    /\ \E n \in ReadSizes :
          LET got == Min(n, Len(rest)) IN
          /\ kfb' = KeepFinalBytesRead(kfb, SubSeq(rest, 1, got))
          /\ rest' = SubSeq(rest, got + 1, Len(rest))
    /\ UNCHANGED <<stream, declared>>
    /\ UNCHANGED NotKeepFinalBytes

NextKeepFinalBytes == Read

SpecKeepFinalBytes == InitKeepFinalBytes /\ [][NextKeepFinalBytes]_vars

\* C15: for every stream whose length L is the size the reader was told and
\* every split of it into reads, no read indexes sha or the chunk out of
\* range, and once the stream is exhausted sha holds the stream's last
\* min(L, 40) bytes, in order, in its last min(L, 40) positions, the
\* positions before them zero.
C15_KeepsFinalBytes ==
    (kfb # None /\ declared = Len(stream)) =>
        /\ ~kfb.panic
        /\ rest = "" =>
               LET m == Min(Len(stream), ShaLen) IN
               kfb.sha = Repeat(NUL, ShaLen - m)
                            \o SubSeq(stream, Len(stream) - m + 1,
                                      Len(stream))

C15_Witness ==
    /\ kfb # None
    /\ Len(stream) = 39
    /\ declared = 39
    /\ rest = ""
    /\ kfb.remain = 0
    /\ ~kfb.panic
    /\ kfb.sha = NUL \o stream

\* C37: no read indexes sha or the chunk out of range, for every sequence
\* of reads, a source that delivers more bytes than the reader was told
\* included.
C37_NeverOutOfBounds ==
    kfb # None => ~kfb.panic

(***************************************************************************)
(* retry.Do: one call, its context, and the timer it waits on.             *)
(***************************************************************************)
\* the most invocations of the operation in one call of Do
MaxTries == 3

\* the values of the Attempts option; 0 retries until the operation succeeds
AttemptCounts == 0..MaxTries
\* the values of the Delay option and of a dynamic delay, in seconds
Delays == {0, 5}
CtxErrs == {[kind |-> "context.Canceled"], [kind |-> "context.DeadlineExceeded"]}

\* the error of the n-th invocation of the operation, and of the hook
OpErr(n) == [kind |-> "operation", n |-> n]
HookErr == [kind |-> "onRetry"]

\* the options of a call: the set of the value given, empty when the option
\* is not given; for a hook, whether it is given
Options ==
    [Attempts : {{}} \cup {{a} : a \in AttemptCounts}, Delay : {{}},
     DynamicAttampts : BOOLEAN, DynamicDelay : BOOLEAN, OnRetry : BOOLEAN,
     RetryIf : BOOLEAN]

\* a default configuration that retries until the operation succeeds
NewDefaultRetryConfigForever == [attempts |-> 0, delay |-> 0]

\* func newDefaultRetryConfig() *Config: attempts and delay; the default
\* hooks are the cases "not given" of the operators below
NewDefaultRetryConfig == [attempts |-> 1, delay |-> 0]

\* for _, opt := range opts { opt(config) }
ApplyOptions(config, opts) ==
    [attempts |-> IF opts.Attempts = {} THEN config.attempts
                  ELSE CHOOSE a \in opts.Attempts : TRUE,
     delay |-> IF opts.Delay = {} THEN config.delay
               ELSE CHOOSE d \in opts.Delay : TRUE]

\* what config.dynamicAttempts, config.retryIf, config.onRetry and
\* config.dynamicDelay can return: the default's result, or any result of
\* the caller's hook
DynamicAttempts(opts, attempts) ==
    IF opts.DynamicAttampts THEN AttemptCounts ELSE {attempts}
RetryIf(opts) == IF opts.RetryIf THEN BOOLEAN ELSE {TRUE}
OnRetry(opts) == IF opts.OnRetry THEN {NilErr, HookErr} ELSE {NilErr}
DynamicDelay(opts, delay) == IF opts.DynamicDelay THEN Delays ELSE {delay}

\* the last attempt only when n has passed attempts
LastAttemptPassed(n, attempts) == attempts # 0 /\ n > attempts

\* config.attempts != 0 && n >= config.attempts
LastAttempt(n, attempts) == attempts # 0 /\ n >= attempts

\* an error of onRetry that does not stop the loop
OnRetryIgnored(h) == FALSE

\* if err := config.onRetry(n, err); err != nil
OnRetryStops(h) == h # NilErr

\* a retryIf whose result does not stop the loop
RetryIfIgnored(ok) == FALSE

\* if !config.retryIf(n, err) { return err }
RetryIfStops(ok) == ~ok

\* the call of retryIf in the log, with what it returned
RetryIfCall(ok) == IF ok THEN "retryIf" ELSE "retryIf:false"

\* the call of onRetry in the log, with what it returned
OnRetryCall(h) == IF h = NilErr THEN "onRetry" ELSE "onRetry:error"

\* a call of Do that returns ret, having made the calls in log
DoReturn(d, ret, log) ==
    [pc |-> "returned", ret |-> ret, config |-> d.config, log |-> log]
\* a call of Do that goes on to the select statement
DoSelects(d, attempts, delay, log) ==
    [pc |-> "select", ret |-> None,
     config |-> [attempts |-> attempts, delay |-> delay], log |-> log]

\* the body of the loop of Do after retryableFunc returned e on the n-th
\* invocation: every way it can go on, with the calls it makes
AfterAttempt(d, e) ==
    IF e = NilErr THEN {DoReturn(d, NilErr, <<>>)}
    ELSE UNION {
        IF LastAttempt(d.n, a)
        THEN {DoReturn([d EXCEPT !.config.attempts = a], e,
                       <<"dynamicAttempts">>)}
        ELSE UNION {
            IF RetryIfStops(ok)
            THEN {DoReturn([d EXCEPT !.config.attempts = a], e,
                           <<"dynamicAttempts", RetryIfCall(ok)>>)}
            ELSE UNION {
                IF OnRetryStops(h)
                THEN {DoReturn([d EXCEPT !.config.attempts = a], h,
                               <<"dynamicAttempts", RetryIfCall(ok),
                                 OnRetryCall(h)>>)}
                ELSE {DoSelects(d, a, dl,
                                <<"dynamicAttempts", RetryIfCall(ok),
                                  OnRetryCall(h), "dynamicDelay", "after">>) :
                         dl \in DynamicDelay(d.opts, d.config.delay)}
                : h \in OnRetry(d.opts)}
            : ok \in RetryIf(d.opts)}
        : a \in DynamicAttempts(d.opts, d.config.attempts)}

RECURSIVE AppendAll(_, _)
AppendAll(log, more) ==
    IF more = <<>> THEN log
    ELSE AppendAll(Append(log, Head(more)), Tail(more))

\* the caller calls Do with a context that may be cancelled already
InitDo ==
    /\ err = NilErr
    /\ res = <<>>
    /\ NoSession
    /\ NoExec
    /\ NoLease
    /\ NoUpdate
    /\ NoReader
    /\ NoBackoff
    /\ \E opts \in Options :
          do = [pc |-> "start", n |-> 0, opts |-> opts,
                config |-> NewDefaultRetryConfig, ret |-> None]
    /\ ctxErr \in {NilErr} \cup CtxErrs
    /\ timer = "none"
    /\ doLog = [calls |-> <<>>,
                cancelled |-> IF ctxErr = NilErr THEN "" ELSE "before"]

\* Do that goes to the loop without looking at the context
DoBeginNoCheck ==
    /\ do # None
    /\ do.pc = "start"
    /\ do' = [do EXCEPT !.pc = "attempt",
                         !.config = ApplyOptions(NewDefaultRetryConfig,
                                                 do.opts)]
    /\ UNCHANGED <<ctxErr, timer, doLog>>
    /\ UNCHANGED NotDo

\* var n uint; if err := ctx.Err(); err != nil { return err }; the config
DoBegin ==
    /\ do # None
    /\ do.pc = "start"
    /\ do' = IF ctxErr # NilErr
             THEN [do EXCEPT !.pc = "returned", !.ret = ctxErr]
             ELSE [do EXCEPT !.pc = "attempt",
                             !.config = ApplyOptions(NewDefaultRetryConfig,
                                                     do.opts)]
    /\ UNCHANGED <<ctxErr, timer, doLog>>
    /\ UNCHANGED NotDo

\* n++; retryableFunc() is called
DoInvoke ==
    /\ do # None
    /\ do.pc = "attempt"
    /\ do.n < MaxTries
    /\ do' = [do EXCEPT !.pc = "running", !.n = @ + 1]
    /\ doLog' = [doLog EXCEPT !.calls = Append(@, "retryableFunc")]
    /\ UNCHANGED <<ctxErr, timer>>
    /\ UNCHANGED NotDo

\* retryableFunc() returned: the rest of the loop's body, up to a return or
\* to the channel of config.after(config.delay)
DoAfterAttempt ==
    /\ do # None
    /\ do.pc = "running"
    /\ \E e \in {NilErr, OpErr(do.n)} :
       \E o \in AfterAttempt(do, e) :
          /\ do' = [do EXCEPT !.pc = o.pc, !.ret = o.ret,
                              !.config = o.config]
          /\ doLog' = [doLog EXCEPT !.calls = AppendAll(@, o.log)]
          /\ timer' = IF o.pc = "select" THEN "set" ELSE timer
    /\ UNCHANGED ctxErr
    /\ UNCHANGED NotDo

\* the cases of the select statement that can proceed
Ready == {c \in {"after", "ctx.Done"} :
             \/ c = "after" /\ timer = "fired"
             \/ c = "ctx.Done" /\ ctxErr # NilErr}

\* a select that takes the timer's case whenever it can proceed
TakeCaseTimerFirst(d, c) ==
    IF c = "after" \/ timer = "fired" THEN [d EXCEPT !.pc = "attempt"]
    ELSE [d EXCEPT !.pc = "returned", !.ret = ctxErr]

\* case <-config.after(config.delay): the loop goes on;
\* case <-ctx.Done(): return ctx.Err()
TakeCase(d, c) ==
    IF c = "after" THEN [d EXCEPT !.pc = "attempt"]
    ELSE [d EXCEPT !.pc = "returned", !.ret = ctxErr]

\* the select statement is reached: one of the cases that can proceed is
\* taken, any of them; with none Do blocks
DoSelect ==
    /\ do # None
    /\ do.pc = "select"
    /\ IF Ready = {}
       THEN do' = [do EXCEPT !.pc = "wait"]
       ELSE \E c \in Ready : do' = TakeCase(do, c)
    /\ timer' = IF do'.pc = "wait" THEN timer ELSE "none"
    /\ UNCHANGED <<ctxErr, doLog>>
    /\ UNCHANGED NotDo

\* the timer fires; a Do blocked in the select is woken with this case
TimerFires ==
    /\ timer = "set"
    /\ timer' = "fired"
    /\ do' = IF do.pc = "wait" THEN [do EXCEPT !.pc = "woken:after"] ELSE do
    /\ UNCHANGED <<ctxErr, doLog>>
    /\ UNCHANGED NotDo

\* the context is cancelled or its deadline passes; a Do blocked in the
\* select is woken with this case
Cancel ==
    /\ do # None
    /\ do.pc # "returned"
    /\ ctxErr = NilErr
    /\ ctxErr' \in CtxErrs
    /\ do' = IF do.pc = "wait" THEN [do EXCEPT !.pc = "woken:ctx.Done"]
             ELSE do
    /\ doLog' = [doLog EXCEPT !.calls = Append(@, "cancel"),
                              !.cancelled = do.pc]
    /\ UNCHANGED timer
    /\ UNCHANGED NotDo

\* a Do that was blocked runs again, with the case it was woken with
DoWake ==
    /\ do # None
    /\ do.pc \in {"woken:after", "woken:ctx.Done"}
    /\ do' = TakeCase([do EXCEPT !.pc = "select"],
                      IF do.pc = "woken:after" THEN "after" ELSE "ctx.Done")
    /\ timer' = "none"
    /\ UNCHANGED <<ctxErr, doLog>>
    /\ UNCHANGED NotDo

NextDo ==
    \/ DoBegin
    \/ DoInvoke
    \/ DoAfterAttempt
    \/ DoSelect
    \/ DoWake
    \/ TimerFires
    \/ Cancel

SpecDo == InitDo /\ [][NextDo]_vars

(***************************************************************************)
(* Claims about retry.Do, checked under SpecDo.                            *)
(***************************************************************************)
\* the number of calls in the log that are among names
Count(names) ==
    Cardinality({i \in DOMAIN doLog.calls : doLog.calls[i] \in names})

\* the attempt count of a call without a dynamic-attempts hook; 0 when the
\* count is not fixed
FixedAttempts ==
    IF do.opts.DynamicAttampts THEN 0
    ELSE ApplyOptions(NewDefaultRetryConfig, do.opts).attempts

\* C16: when the context is cancelled while Do is blocked in the select
\* between two attempts, the timer not having fired, Do returns the
\* context's error and calls nothing more, the operation least of all.
C16_CancelWhileWaiting ==
    (do # None /\ doLog.cancelled = "wait") =>
        /\ do.pc \in {"woken:ctx.Done", "returned"}
        /\ do.pc = "returned" => (do.ret = ctxErr /\ do.ret \in CtxErrs)
        /\ doLog.calls[Len(doLog.calls)] = "cancel"

C16_Witness ==
    /\ do # None
    /\ doLog.cancelled = "wait"
    /\ do.pc = "returned"
    /\ do.ret = ctxErr
    /\ do.n = 2
    /\ timer = "none"

\* C17: when the context is cancelled or expired already as Do is called, Do
\* returns the context's error and calls neither the operation nor a hook.
C17_CancelledAtCall ==
    (do # None /\ doLog.cancelled \in {"before", "start"}) =>
        /\ do.pc \in {"start", "returned"}
        /\ do.pc = "returned" => (do.ret = ctxErr /\ do.ret \in CtxErrs)
        /\ do.n = 0
        /\ \A i \in DOMAIN doLog.calls : doLog.calls[i] = "cancel"

C17_Witness ==
    /\ do # None
    /\ doLog.cancelled = "before"
    /\ do.pc = "returned"
    /\ do.ret = [kind |-> "context.DeadlineExceeded"]
    /\ do.opts.Attempts = {3}

\* C18: with a fixed attempt count N >= 1, 1 when the option is not given,
\* and no dynamic-attempts hook, Do calls the operation at most N times; the
\* N-th call having failed, Do has returned its error and has called retryIf,
\* onRetry and after only for the calls before it; without the option an
\* operation that fails was called once.
C18_AtMostN ==
    (do # None /\ FixedAttempts >= 1) =>
        LET N == FixedAttempts IN
        /\ do.n <= N
        /\ Count({"retryableFunc"}) = do.n
        /\ (do.n = N /\ do.pc # "running") =>
               /\ do.pc = "returned"
               /\ do.ret \in {NilErr, OpErr(N)}
               /\ Count({"retryIf", "retryIf:false"}) <= N - 1
               /\ Count({"onRetry", "onRetry:error"}) <= N - 1
               /\ Count({"after"}) <= N - 1
        /\ (do.opts.Attempts = {} /\ do.pc = "returned"
               /\ do.ret \notin {NilErr} \cup CtxErrs)
              => (do.n = 1 /\ do.ret = OpErr(1))

C18_Witness ==
    /\ do # None
    /\ do.opts.Attempts = {2}
    /\ ~do.opts.DynamicAttampts
    /\ do.pc = "returned"
    /\ do.ret = OpErr(2)
    /\ Count({"retryIf"}) = 1
    /\ Count({"after"}) = 1

\* C19: when onRetry returns an error after a failed attempt, Do returns
\* that error at once: the call of onRetry is the last thing Do did, with no
\* wait and no call of the operation after it.
C19_OnRetryErrorStops ==
    do # None =>
        \A i \in DOMAIN doLog.calls :
            doLog.calls[i] = "onRetry:error" =>
                /\ i = Len(doLog.calls)
                /\ do.pc = "returned"
                /\ do.ret = HookErr

C19_Witness ==
    /\ do # None
    /\ do.pc = "returned"
    /\ do.ret = HookErr
    /\ do.n = 2
    /\ Len(doLog.calls) > 0
    /\ doLog.calls[Len(doLog.calls)] = "onRetry:error"

\* the calls Do has made since it last called the operation
SinceLastInvoke ==
    LET last == CHOOSE i \in DOMAIN doLog.calls :
                    /\ doLog.calls[i] = "retryableFunc"
                    /\ \A j \in DOMAIN doLog.calls :
                           doLog.calls[j] = "retryableFunc" => j <= i
    IN {doLog.calls[j] : j \in {k \in DOMAIN doLog.calls : k > last}}

\* C34: when retryIf returns false, with attempts remaining, Do returns the
\* error of that attempt at once: the call of retryIf is the last thing Do
\* did, with no call of onRetry, no delay computed and no wait after it.
\* retryIf is not called after an attempt that succeeded nor after the last
\* permitted attempt.
C34_RetryIfFalseStops ==
    do # None =>
        /\ \A i \in DOMAIN doLog.calls :
               doLog.calls[i] = "retryIf:false" =>
                   /\ i = Len(doLog.calls)
                   /\ doLog.calls[i - 1] = "dynamicAttempts"
                   /\ do.pc = "returned"
                   /\ do.ret = OpErr(do.n)
                   /\ timer = "none"
                   /\ do.config.attempts = 0 \/ do.n < do.config.attempts
        /\ (do.pc = "returned" /\ do.n > 0 /\ do.ret = NilErr) =>
               SinceLastInvoke \subseteq {"cancel"}
        /\ (do.pc = "returned" /\ do.n > 0 /\ do.ret = OpErr(do.n)
               /\ LastAttempt(do.n, do.config.attempts)) =>
               SinceLastInvoke \subseteq {"cancel", "dynamicAttempts"}

C34_Witness ==
    /\ do # None
    /\ do.opts.Attempts = {3}
    /\ ~do.opts.DynamicAttampts
    /\ do.pc = "returned"
    /\ do.ret = OpErr(2)
    /\ doLog.calls[Len(doLog.calls)] = "retryIf:false"
    /\ Count({"after"}) = 1
    /\ Count({"onRetry", "onRetry:error"}) = 1

\* C36: once the context is cancelled Do does not call the operation
\* again, whatever the delay: in the case of a cancellation that comes
\* while an attempt is running, no call of the operation follows it.
C36_NoInvocationAfterCancel ==
    (do # None /\ doLog.cancelled = "running") =>
        \A i, j \in DOMAIN doLog.calls :
            (doLog.calls[i] = "cancel" /\ i < j) =>
                doLog.calls[j] # "retryableFunc"

(***************************************************************************)
(* retry.Backoff and retry.Jitter, on durations of int64 nanoseconds.      *)
(***************************************************************************)
\* a > b, for values whose difference an int64 holds
Gt64(a, b) == IsPos(Add64(a, NegLimbs(b)))

\* a / m truncated, for a >= 0 and a small m: the limbs from the i-th down
RECURSIVE DivLimbs(_, _, _, _)
DivLimbs(a, m, i, rem) ==
    IF i = 0 THEN <<>>
    ELSE LET cur == rem * 256 + a[i]
         IN  DivLimbs(a, m, i - 1, cur % m) \o <<cur \div m>>
Div64(a, m) == DivLimbs(a, m, IntBytes, 0)

\* 30 * time.Second
Cap == Mul64(Int64(30), Int64(Second))

\* func Jitter(d time.Duration) time.Duration, for d >= 0: f is d/50 and
\* rand.Float64() is in [0, 1), so what is returned lies from d/100 up to
\* 3d/100; the least, the middle and the greatest value stand for them
Jitter(d) ==
    {Div64(d, 100), Div64(d, 50), Div64(Mul64(d, Int64(3)), 100)}

\* func Backoff(d time.Duration) time.Duration: the value before the jitter,
\* the jitter and what is returned
RetryBackoff(d) ==
    IF Gt64(d, Cap)
    THEN {[base |-> Cap, jitter |-> j, result |-> Add64(Cap, j)] :
             j \in Jitter(d)}
    ELSE LET twice == Mul64(d, Int64(2)) IN
         {[base |-> twice, jitter |-> j, result |-> Add64(twice, j)] :
             j \in Jitter(twice)}

\* the durations Backoff is called with: every tenth of a second up to 70
\* seconds, and the nanoseconds around 15 and 30 seconds
Waits ==
    {Mul64(Int64(q), Int64(100000000)) : q \in 0..700}
    \cup {Add64(Mul64(Int64(q), Int64(Second)), Int64(x)) :
             q \in {15, 30}, x \in {-1, 1}}

InitBackoff ==
    /\ err = NilErr
    /\ res = <<>>
    /\ NoSession
    /\ NoExec
    /\ NoLease
    /\ NoUpdate
    /\ NoReader
    /\ NoDo
    /\ wait \in Waits
    /\ backoff = None

CallBackoffOf ==
    /\ backoff = None
    /\ backoff' \in RetryBackoff(wait)
    /\ UNCHANGED wait
    /\ UNCHANGED NotBackoff

NextBackoff == CallBackoffOf

SpecBackoff == InitBackoff /\ [][NextBackoff]_vars

\* the smaller of two durations
Min64(a, b) == IF Gt64(a, b) THEN b ELSE a

\* C20: for every d >= 0 the value Backoff(d) has before the jitter is
\* min(2d, 30s), and what it returns exceeds 30 seconds by no more than the
\* jitter.
C20_CappedAt30s ==
    backoff # None =>
        /\ backoff.base = Min64(Mul64(wait, Int64(2)), Cap)
        /\ ~Gt64(backoff.result, Add64(Cap, backoff.jitter))

(***************************************************************************)
(* The large-file session: the calls of the caller's goroutines.           *)
(***************************************************************************)
\* a Lock() that returns at once, whoever holds the mutex
TryLockNoWait(m) == TRUE

\* l.mu.Lock() returns once nobody holds the mutex
TryLock(m) == m = Unlocked

\* a request handed to the transport by makeRequest
Request(method, index, sha1, Hashes) ==
    [method |-> method, partNumber |-> index, sha1 |-> sha1,
     Hashes |-> Hashes]

\* the locals of a call that has returned are dead: only the method of the
\* request it sent and what it returned is kept
Returned(call, ret) ==
    [NoCall EXCEPT
        !.op = call.op, !.pc = "returned", !.ret = ret,
        !.req = IF call.req = None THEN None
                ELSE Request(call.req.method, 0, "", <<>>)]

Init ==
    /\ err = NilErr
    /\ res = <<>>
    /\ NoSession
    /\ NoExec
    /\ NoLease
    /\ NoUpdate
    /\ NoReader
    /\ NoDo
    /\ NoBackoff

\* hashes: seen, the caller's map itself
CallersMap == "seen"

\* hashes: make(map[int]string), a map of the session's own
NewMap == "make"

\* func (b *Bucket) StartLargeFile: the session exists once the call succeeded
StartLargeFile ==
    /\ lf = "none"
    /\ \E ok \in BOOLEAN :
          IF ok
          THEN /\ lf' = "open" /\ hashes' = <<>> /\ size' = 0
               /\ hashesMap' = NewMap /\ life' = "Started"
          ELSE UNCHANGED <<lf, hashes, size, hashesMap, life>>
    /\ UNCHANGED <<mu, seen, calls, ncalls, resume, done, callerSeen>>
    /\ UNCHANGED NotLargeFile

\* func (f *File) CompileParts(size int64, seen map[int]string) *LargeFile
CompileParts ==
    /\ lf = "none"
    /\ \E s \in SeenMaps, sz \in ResumeSizes :
          /\ seen' = s
          /\ callerSeen' = s
          /\ hashes' = [k \in DOMAIN s |-> s[k]]
          /\ size' = sz
          /\ resume' = sz
    /\ hashesMap' = NewMap
    /\ life' = "Started"
    /\ lf' = "open"
    /\ UNCHANGED <<mu, calls, ncalls, done>>
    /\ UNCHANGED NotLargeFile

\* a goroutine begins a call when its last one has returned
CanCall(g) ==
    /\ lf = "open"
    /\ ncalls < MaxCalls
    /\ calls[g].pc \in {"idle", "returned"}

\* func (fc *FileChunk) UploadPart, up to the request being in flight
UploadPartRequest(g) ==
    /\ g \in Uploaders
    /\ CanCall(g)
    /\ \E index \in PartNumbers :
       \E sha1 \in {HashArg(g, index)} :
          calls' = [calls EXCEPT ![g] =
              [NoCall EXCEPT
                  !.op = "UploadPart", !.pc = "request", !.index = index,
                  !.sha1 = sha1, !.size = PartSize(index),
                  !.body = PartBody(index),
                  !.r = IF sha1 = HexDigitsAtEnd
                        THEN NewKeepFinalBytes(PartSize(index)) ELSE None,
                  !.req = Request("b2_upload_part", index, sha1, <<>>),
                  !.began = life]]
    /\ ncalls' = ncalls + 1
    /\ UNCHANGED <<lf, size, hashes, mu, seen, resume, done, life, hashesMap,
                   callerSeen>>
    /\ UNCHANGED NotLargeFile

\* the size of the part returned with the error
UploadPartErrCounted(call, e) == [n |-> call.size, file |-> None, err |-> e]

\* return 0, err
UploadPartErr(call, e) == [n |-> 0, file |-> None, err |-> e]

\* makeRequest returned an error: return 0, err
UploadPartFail(g) ==
    /\ calls[g].op = "UploadPart"
    /\ calls[g].pc = "request"
    /\ \E e \in RequestErrs("b2_upload_part") :
          calls' = [calls EXCEPT ![g] = Returned(@, UploadPartErr(@, e))]
    /\ UNCHANGED <<lf, size, hashes, mu, seen, ncalls, resume, done, life,
                   hashesMap, callerSeen>>
    /\ UNCHANGED NotLargeFile

\* the hash argument recorded as it was given
ResolvedHashArg(sha1, r) == sha1

\* the hash UploadPart records: the argument, or the bytes the reader kept
ResolvedHash(sha1, r) == IF sha1 = HexDigitsAtEnd THEN r.sha ELSE sha1

\* the assignment skipped when the part number has a hash already
RecordHashOnce(h, index, sha1) ==
    IF index \in DOMAIN h THEN h ELSE MapSet(h, index, sha1)

\* fc.file.hashes[index] = sha1
RecordHash(h, index, sha1) == MapSet(h, index, sha1)

\* makeRequest returned nil, the transport having read the whole body;
\* fc.file.mu.Lock(); fc.file.hashes[index] = sha1; and the read of
\* fc.file.size that fc.file.size += int64(size) begins with
UploadPartReply(g) ==
    /\ calls[g].op = "UploadPart"
    /\ calls[g].pc = "request"
    /\ TryLock(mu)
    /\ mu' = g
    /\ \E chunk \in ChunkSizes :
          LET r == IF calls[g].sha1 = HexDigitsAtEnd
                   THEN ReadBody(calls[g].r, calls[g].body, chunk)
                   ELSE calls[g].r
          IN  /\ hashes' = RecordHash(hashes, calls[g].index,
                                      ResolvedHash(calls[g].sha1, r))
              /\ calls' = [calls EXCEPT ![g].pc = "add", ![g].r = r,
                                        ![g].tmp = size]
    /\ callerSeen' = IF hashesMap = CallersMap THEN hashes' ELSE callerSeen
    /\ UNCHANGED <<lf, size, seen, ncalls, resume, done, life, hashesMap>>
    /\ UNCHANGED NotLargeFile

\* fc.file.size = int64(size)
AddSizeAssign(tmp, n) == n

\* fc.file.size += int64(size), from the value read
AddSize(tmp, n) == tmp + n

\* the write of fc.file.size; fc.file.mu.Unlock(); return size, nil
UploadPartAdd(g) ==
    /\ calls[g].op = "UploadPart"
    /\ calls[g].pc = "add"
    /\ size' = AddSize(calls[g].tmp, calls[g].size)
    /\ mu' = Unlocked
    /\ calls' = [calls EXCEPT ![g] =
           Returned(@, [n |-> calls[g].size, file |-> None, err |-> NilErr])]
    /\ done' = Append(done, [index |-> calls[g].index, sha1 |-> calls[g].sha1,
                             body |-> calls[g].body, size |-> calls[g].size])
    /\ UNCHANGED <<lf, hashes, seen, ncalls, resume, life, hashesMap,
                   callerSeen>>
    /\ UNCHANGED NotLargeFile

InvalidIndex(k) ==
    [kind |-> "fmt.Errorf", msg |-> "b2_finish_large_file: invalid index %d",
     k |-> k]

\* the panic of an index expression out of range
IndexOutOfRange == [kind |-> "panic", msg |-> "index out of range"]

\* the guard given up as soon as it is taken
FinishGuardReleased(g) == Unlocked

\* l.mu.Lock(); defer l.mu.Unlock(): g holds the mutex until it returns
FinishGuard(g) == g

\* func (l *LargeFile) FinishLargeFile, from l.mu.Lock() to the error, the
\* panic, or the request being in flight
FinishLargeFileBegin(g) ==
    /\ g \in Finishers
    /\ CanCall(g)
    /\ TryLock(mu)
    /\ mu' = FinishGuard(g)
    /\ \E order \in Orders(DOMAIN hashes) :
          LET b == FinishLoop(hashes, order, 1, MakeHashes(hashes))
              call == [NoCall EXCEPT !.op = "FinishLargeFile",
                                     !.began = life]
          IN
          calls' = [calls EXCEPT ![g] =
              CASE b.outcome = "invalid index" ->
                     [call EXCEPT !.pc = "unlock",
                                  !.ret = [n |-> 0, file |-> None,
                                           err |-> InvalidIndex(b.k)]]
                [] b.outcome = "panic" ->
                     [call EXCEPT !.pc = "unlock",
                                  !.ret = [n |-> 0, file |-> None,
                                           err |-> IndexOutOfRange]]
                [] OTHER ->
                     [call EXCEPT !.pc = "request",
                                  !.req = Request("b2_finish_large_file", 0,
                                                  "", b.Hashes)]]
    /\ ncalls' = ncalls + 1
    /\ UNCHANGED <<lf, size, hashes, seen, resume, done, life, hashesMap,
                   callerSeen>>
    /\ UNCHANGED NotLargeFile

\* makeRequest returned an error: return nil, err
FinishLargeFileFail(g) ==
    /\ calls[g].op = "FinishLargeFile"
    /\ calls[g].pc = "request"
    /\ \E e \in RequestErrs("b2_finish_large_file") :
          calls' = [calls EXCEPT ![g].pc = "unlock",
                                 ![g].ret = [n |-> 0, file |-> None, err |-> e]]
    /\ UNCHANGED <<lf, size, hashes, mu, seen, ncalls, resume, done, life,
                   hashesMap, callerSeen>>
    /\ UNCHANGED NotLargeFile

\* makeRequest returned nil: return &File{Size: l.size, ...}, nil
FinishLargeFileReply(g) ==
    /\ calls[g].op = "FinishLargeFile"
    /\ calls[g].pc = "request"
    /\ calls' = [calls EXCEPT ![g].pc = "unlock",
                              ![g].ret = [n |-> 0, file |-> [Size |-> size],
                                          err |-> NilErr]]
    /\ life' = "Finished"
    /\ UNCHANGED <<lf, size, hashes, mu, seen, ncalls, resume, done,
                   hashesMap, callerSeen>>
    /\ UNCHANGED NotLargeFile

\* the deferred l.mu.Unlock(), on the way out of FinishLargeFile by a return
\* or by the panic
FinishLargeFileUnlock(g) ==
    /\ calls[g].op = "FinishLargeFile"
    /\ calls[g].pc = "unlock"
    /\ mu' = Unlocked
    /\ calls' = [calls EXCEPT ![g] =
           IF @.ret.err.kind = "panic"
           THEN [Returned(@, @.ret) EXCEPT !.pc = "panicked"]
           ELSE Returned(@, @.ret)]
    /\ UNCHANGED <<lf, size, hashes, seen, ncalls, resume, done, life,
                   hashesMap, callerSeen>>
    /\ UNCHANGED NotLargeFile

\* CancelLargeFile with the session emptied when the call is made
CancelLargeFileResets(g) ==
    /\ g \in Finishers
    /\ CanCall(g)
    /\ calls' = [calls EXCEPT ![g] =
           [NoCall EXCEPT
               !.op = "CancelLargeFile", !.pc = "request",
               !.req = Request("b2_cancel_large_file", 0, "", <<>>),
               !.began = life]]
    /\ ncalls' = ncalls + 1
    /\ life' = "Cancelled"
    /\ hashes' = <<>>
    /\ size' = 0
    /\ UNCHANGED <<lf, mu, seen, resume, done, hashesMap, callerSeen>>
    /\ UNCHANGED NotLargeFile

\* func (l *LargeFile) CancelLargeFile, up to the request being in flight:
\* it takes no lock and touches no field of the session but ID and b2
CancelLargeFileRequest(g) ==
    /\ g \in Finishers
    /\ CanCall(g)
    /\ calls' = [calls EXCEPT ![g] =
           [NoCall EXCEPT
               !.op = "CancelLargeFile", !.pc = "request",
               !.req = Request("b2_cancel_large_file", 0, "", <<>>),
               !.began = life]]
    /\ ncalls' = ncalls + 1
    /\ life' = "Cancelled"
    /\ UNCHANGED <<lf, size, hashes, mu, seen, resume, done, hashesMap,
                   callerSeen>>
    /\ UNCHANGED NotLargeFile

\* return l.b2.opts.makeRequest(...): nil, or the error of the request
CancelLargeFileReturn(g) ==
    /\ calls[g].op = "CancelLargeFile"
    /\ calls[g].pc = "request"
    /\ \E e \in {NilErr} \cup RequestErrs("b2_cancel_large_file") :
          calls' = [calls EXCEPT ![g] =
              Returned(@, [n |-> 0, file |-> None, err |-> e])]
    /\ UNCHANGED <<lf, size, hashes, mu, seen, ncalls, resume, done, life,
                   hashesMap, callerSeen>>
    /\ UNCHANGED NotLargeFile

\* the entry the caller writes into its own map after CompileParts
CallerEntry == [k |-> 3, v |-> "changed"]

\* the caller writes into the map it gave to CompileParts
CallerWrite ==
    /\ lf = "open"
    /\ seen # <<>>
    /\ callerSeen = seen
    /\ callerSeen' = MapSet(callerSeen, CallerEntry.k, CallerEntry.v)
    /\ hashes' = IF hashesMap = CallersMap THEN callerSeen' ELSE hashes
    /\ UNCHANGED <<lf, size, mu, seen, calls, ncalls, resume, done, life,
                   hashesMap>>
    /\ UNCHANGED NotLargeFile

Next ==
    \/ StartLargeFile
    \/ CompileParts
    \/ \E g \in Goroutines :
          \/ UploadPartRequest(g)
          \/ UploadPartFail(g)
          \/ UploadPartReply(g)
          \/ UploadPartAdd(g)
          \/ FinishLargeFileBegin(g)
          \/ FinishLargeFileFail(g)
          \/ FinishLargeFileReply(g)
          \/ FinishLargeFileUnlock(g)
          \/ CancelLargeFileRequest(g)
          \/ CancelLargeFileReturn(g)
    \/ CallerWrite

Spec == Init /\ [][Next]_vars

(***************************************************************************)
(* Claims about FinishLargeFile, checked under Spec.  While a call of      *)
(* FinishLargeFile holds the mutex, the session is as the call found it.   *)
(***************************************************************************)
Keys == DOMAIN hashes
NumKeys == Cardinality(Keys)
Finishing(g) == calls[g].op = "FinishLargeFile" /\ mu = g
FailedLocally(g) ==
    /\ Finishing(g)
    /\ calls[g].pc = "unlock"
    /\ calls[g].ret.err.kind = "fmt.Errorf"

\* C8: for every session whose hash mapping has positive part numbers that
\* are not exactly 1..N, N the number of entries, FinishLargeFile returns an
\* error and hands no request to the transport; the finish request is sent
\* only when the part numbers are exactly 1..N.
C8_GapFailsLocally ==
    \A g \in Finishers :
        Finishing(g) =>
            /\ ((\A k \in Keys : k >= 1) /\ Keys # 1..NumKeys)
                   => FailedLocally(g) /\ calls[g].req = None
            /\ calls[g].req # None => Keys = 1..NumKeys

C8_Witness ==
    \E g \in Finishers :
        /\ FailedLocally(g)
        /\ Keys = {1, 2, 4}
        /\ calls[g].req = None

\* the first part number missing from a mapping
FirstMissing(h) ==
    CHOOSE i \in 1..(Cardinality(DOMAIN h) + 1) :
        i \notin DOMAIN h /\ \A j \in 1..(i - 1) : j \in DOMAIN h

\* C9 as stated: when FinishLargeFile fails because of a gap in the part
\* numbers, the error names the first missing part number (part 3 for the
\* mapping {1,2,4}).
C9_AsStated ==
    \A g \in Finishers :
        (FailedLocally(g) /\ \A k \in Keys : k >= 1)
            => calls[g].ret.err.k = FirstMissing(hashes)

\* C9 amended: when FinishLargeFile fails because of a gap in the part
\* numbers, the error names a part number of the mapping that is greater
\* than the number of entries (part 4 for the mapping {1,2,4}); it is the
\* same on every run when the mapping has one such part number.
C9_NamesKeyBeyondLength ==
    \A g \in Finishers :
        FailedLocally(g)
            => /\ calls[g].ret.err.k \in Keys
               /\ calls[g].ret.err.k > NumKeys
               /\ Keys = {1, 2, 4} => calls[g].ret.err.k = 4

C9_Witness ==
    \E g \in Finishers :
        /\ FailedLocally(g)
        /\ Keys = {1, 2, 4}
        /\ calls[g].ret.err.k = 4

\* the hash of an uploaded part: the hash the caller gave, or the last
\* ShaLen bytes of the part's stream
PartHash(d) ==
    IF d.sha1 = HexDigitsAtEnd
    THEN SubSeq(d.body, Len(d.body) - ShaLen + 1, Len(d.body))
    ELSE d.sha1

\* the hashes of the parts: those CompileParts was given, and over them
\* those of the uploads that returned without error, in their order
RECURSIVE Recorded(_)
Recorded(n) ==
    IF n = 0 THEN seen
    ELSE MapSet(Recorded(n - 1), done[n].index, PartHash(done[n]))

RECURSIVE SumSizes(_)
SumSizes(n) == IF n = 0 THEN 0 ELSE SumSizes(n - 1) + done[n].size

\* C10: FinishLargeFile sends a hash array whose position i holds the hash
\* recorded for part i, and on success returns a File whose Size is the sum
\* of the sizes of the uploaded parts and the size given to CompileParts, in
\* whatever order the UploadPart calls completed.
C10_HashesAndSize ==
    \A g \in Finishers :
        Finishing(g) =>
            /\ calls[g].req # None =>
                   LET sent == calls[g].req.Hashes
                       want == Recorded(Len(done))
                   IN  /\ DOMAIN sent = 0..(NumKeys - 1)
                       /\ DOMAIN want = 1..NumKeys
                       /\ \A i \in DOMAIN want : sent[i - 1] = want[i]
            /\ (calls[g].pc = "unlock" /\ calls[g].ret.file # None) =>
                   calls[g].ret.file.Size = resume + SumSizes(Len(done))

C10_Witness ==
    \E g \in Finishers :
        /\ Finishing(g)
        /\ calls[g].pc = "unlock"
        /\ calls[g].ret.file # None
        /\ calls[g].req # None
        /\ resume = 1000
        /\ Len(done) = 2
        /\ done[1].index = 2
        /\ done[2].index = 1
        /\ Keys = {1, 2}

(***************************************************************************)
(* Claims about UploadPart, checked under Spec.                            *)
(***************************************************************************)
DoneIndexes == {done[i].index : i \in 1..Len(done)}

\* C11: under every interleaving of the uploaders' successful UploadPart
\* calls, whenever no upload holds the mutex the session's hash mapping is
\* the given one overlaid with the hash of every completed upload, and its
\* size is the given size plus the sum of their sizes; for distinct part
\* numbers on a fresh session there are as many entries as uploads.
C11_NoLostUpdate ==
    mu \notin Uploaders =>
        /\ hashes = Recorded(Len(done))
        /\ size = resume + SumSizes(Len(done))
        /\ (seen = <<>> /\ Cardinality(DoneIndexes) = Len(done))
               => Cardinality(DOMAIN hashes) = Len(done)

C11_Witness ==
    /\ mu = Unlocked
    /\ \A g \in Uploaders :
           /\ calls[g].op = "UploadPart"
           /\ calls[g].pc = "returned"
           /\ calls[g].ret.err = NilErr
    /\ seen = <<>>
    /\ DoneIndexes = {1, 2}
    /\ Len(done) = 2
    /\ DOMAIN hashes = {1, 2}

\* C12: a successful UploadPart records under its part number the hash it
\* was given, or for the argument "hex_digits_at_end" the last 40 bytes of
\* the stream and never the argument itself; it adds its size to the
\* session's size and returns its size.
C12_UploadPartRecords ==
    [][\A g \in Uploaders :
          LET c == calls[g] IN
          /\ (c.pc = "request" /\ calls'[g].pc = "add") =>
                 /\ hashes' = MapSet(hashes, c.index,
                        IF c.sha1 = HexDigitsAtEnd
                        THEN SubSeq(c.body, Len(c.body) - ShaLen + 1,
                                    Len(c.body))
                        ELSE c.sha1)
                 /\ hashes'[c.index] # HexDigitsAtEnd
          /\ (c.pc = "add" /\ calls'[g].pc = "returned") =>
                 /\ hashes' = hashes
                 /\ size' = size + c.size
                 /\ calls'[g].ret.n = c.size
                 /\ calls'[g].ret.err = NilErr]_vars

C12_Witness ==
    /\ Len(done) > 0
    /\ LET d == done[Len(done)] IN
           /\ d.sha1 = HexDigitsAtEnd
           /\ d.index \in DOMAIN hashes
           /\ hashes[d.index] = PartHash(d)
           /\ size = resume + d.size

(***************************************************************************)
(* Claims about the session's lifecycle and its map, checked under Spec.   *)
(***************************************************************************)
Consumed == life \in {"Finished", "Cancelled"}

\* goroutine g begins a call of FinishLargeFile in this step
BeginsFinish(g) ==
    /\ calls[g].pc \in {"idle", "returned"}
    /\ calls'[g].op = "FinishLargeFile"
    /\ calls'[g].pc \notin {"idle", "returned"}

\* a step of a successful UploadPart of goroutine g
UploadPartStep(g) ==
    /\ calls[g].op = "UploadPart"
    /\ \/ calls[g].pc = "request" /\ calls'[g].pc = "add"
       \/ calls[g].pc = "add" /\ calls'[g].pc = "returned"

\* C13 as stated: once FinishLargeFile has succeeded or CancelLargeFile has
\* been called, no UploadPart begun afterwards changes the session's size or
\* hash mapping, and no FinishLargeFile begun afterwards issues a finish
\* request.
C13_AsStated ==
    [][/\ \A g \in Uploaders :
              (calls[g].began \in {"Finished", "Cancelled"}
                  /\ calls'[g] # calls[g])
                 => hashes' = hashes /\ size' = size
       /\ \A g \in Finishers :
              (Consumed /\ BeginsFinish(g)) => calls'[g].pc # "request"]_vars

\* C13 amended: FinishLargeFile and CancelLargeFile leave the session's size
\* and hash mapping as they are and do not invalidate it: the size and the
\* mapping change only in a successful UploadPart, before and after, and a
\* FinishLargeFile begun after the session was finished or cancelled issues
\* a finish request exactly when the part numbers are 1..N.
C13_NoInvalidation ==
    [][lf = "open" =>
          /\ \A g \in Finishers :
                 calls'[g] # calls[g] => hashes' = hashes /\ size' = size
          /\ (hashes' # hashes \/ size' # size)
                 => \E g \in Uploaders : UploadPartStep(g)
          /\ \A g \in Finishers :
                 (Consumed /\ BeginsFinish(g)) =>
                    (calls'[g].pc = "request" <=> Keys = 1..NumKeys)]_vars

C13_Witness ==
    \E g \in Finishers :
        /\ calls[g].op = "FinishLargeFile"
        /\ calls[g].began = "Finished"
        /\ calls[g].pc = "request"
        /\ life = "Finished"
        /\ Len(done) > 0

\* C14: the session CompileParts returns holds the entries of seen in a map
\* of its own: a write of the caller into its map leaves the session's hash
\* mapping as it is, and no UploadPart changes the caller's map.
C14_CompilePartsCopies ==
    [][/\ (lf = "none" /\ lf' = "open" /\ seen' # <<>>)
              => hashes' = callerSeen'
       /\ lf = "open" =>
              /\ callerSeen' # callerSeen => hashes' = hashes
              /\ hashes' # hashes => callerSeen' = callerSeen]_vars

C14_Witness ==
    /\ seen # <<>>
    /\ callerSeen # seen
    /\ CallerEntry.k \in DOMAIN callerSeen
    /\ CallerEntry.k \notin DOMAIN hashes
    /\ Len(done) > 0
    /\ hashes # seen

\* the last of the completed uploads of part number k
LastDone(k) ==
    CHOOSE j \in 1..Len(done) :
        /\ done[j].index = k
        /\ \A i \in 1..Len(done) : done[i].index = k => i <= j

\* C30: when no upload holds the mutex, a part number uploaded more than
\* once has one hash entry, the hash of the upload that recorded last, the
\* mapping has no entry besides the given ones and one per part number
\* uploaded, and the size counts every upload, each of the repeated ones
\* too.
C30_SamePartTwice ==
    mu \notin Uploaders =>
        /\ \A k \in DoneIndexes : hashes[k] = PartHash(done[LastDone(k)])
        /\ DOMAIN hashes = DOMAIN seen \cup DoneIndexes
        /\ size = resume + SumSizes(Len(done))

C30_Witness ==
    /\ mu = Unlocked
    /\ seen = <<>>
    /\ Len(done) = 2
    /\ done[1].index = 1
    /\ done[2].index = 1
    /\ PartHash(done[1]) # PartHash(done[2])
    /\ DOMAIN hashes = {1}
    /\ hashes[1] = PartHash(done[2])
    /\ size = 2 * PartSize(1)

\* goroutine g is in FinishLargeFile, past l.mu.Lock()
InFinish(g) ==
    calls[g].op = "FinishLargeFile" /\ calls[g].pc \in {"request", "unlock"}

\* C31: from the step in which FinishLargeFile takes the mutex to the step
\* in which it returns, no step changes the session's size or hash mapping;
\* all that time FinishLargeFile holds the mutex and no UploadPart is in its
\* bookkeeping, and the Size of the File returned is the session's size.
C31_GuardHeld ==
    [][\A g \in Finishers :
          /\ (InFinish(g) \/ InFinish(g)') =>
                 hashes' = hashes /\ size' = size
          /\ InFinish(g)' =>
                 /\ mu' = g
                 /\ \A u \in Uploaders : calls'[u].pc # "add"
                 /\ (calls'[g].pc = "unlock" /\ calls'[g].ret.file # None)
                        => calls'[g].ret.file.Size = size']_vars

C31_Witness ==
    /\ InFinish("f1")
    /\ calls["f1"].pc = "unlock"
    /\ calls["f1"].ret.file # None
    /\ calls["f1"].ret.file.Size = PartSize(1)
    /\ calls["u1"].op = "UploadPart"
    /\ calls["u1"].pc = "request"
    /\ Len(done) = 1
    /\ Keys = {1}

\* C35: a call of UploadPart that returns an error has left the session's
\* hashes and size as they were, from its first step to its return, and
\* has returned 0 as the number of bytes.
C35_FailedUploadNoEffect ==
    [][\A g \in Uploaders :
          /\ (calls'[g] # calls[g] /\ calls'[g].op = "UploadPart"
                 /\ calls'[g].pc = "request") =>
                 hashes' = hashes /\ size' = size
          /\ (calls'[g] # calls[g] /\ calls'[g].op = "UploadPart"
                 /\ calls'[g].pc = "returned"
                 /\ calls'[g].ret.err # NilErr) =>
                 /\ calls[g].pc = "request"
                 /\ hashes' = hashes
                 /\ size' = size
                 /\ calls'[g].ret.n = 0]_vars

C35_Witness ==
    /\ calls["u2"].op = "UploadPart"
    /\ calls["u2"].pc = "returned"
    /\ calls["u2"].ret.err = B2Err("b2_upload_part", 503)
    /\ calls["u2"].ret.n = 0
    /\ Keys = {1}
    /\ size = PartSize(1)
    /\ Len(done) = 1

\* C38: for every mapping with a part number below 1, FinishLargeFile
\* returns an ordinary error: it does not panic and sends no request.
C38_BelowOneIsError ==
    \A g \in Finishers :
        (/\ calls[g].op = "FinishLargeFile"
         /\ calls[g].pc \in {"request", "unlock"}
         /\ \E k \in Keys : k < 1)
            => /\ calls[g].pc = "unlock"
               /\ calls[g].ret.err.kind = "fmt.Errorf"

(***************************************************************************)
(* The request executor: makeRequest and DownloadFileByName, with          *)
(* makeNetRequest and mkErr, called by concurrent goroutines.              *)
(***************************************************************************)
\* the most calls of the executor, over all callers
MaxRequests == 2

\* the decimal digit a one-character string writes, -1 if it writes none
DecimalDigits == "0123456789"
DigitOf(ch) ==
    IF \E d \in 1..10 : SubSeq(DecimalDigits, d, d) = ch
    THEN (CHOOSE d \in 1..10 : SubSeq(DecimalDigits, d, d) = ch) - 1
    ELSE -1

\* the digits of the characters of s from the i-th on
DigitsOf(s, i) ==
    [k \in 1..(Len(s) - i + 1) |-> DigitOf(SubSeq(s, i + k - 1, i + k - 1))]

\* the largest and the smallest int64
MaxInt64 == [i \in 1..IntBytes |-> IF i = IntBytes THEN 127 ELSE 255]
MinInt64 == [i \in 1..IntBytes |-> IF i = IntBytes THEN 128 ELSE 0]

\* the decimal digits of the largest int64, and of the smallest without
\* its sign
MaxInt64Digits == DigitsOf("9223372036854775807", 1)
MinInt64Digits == DigitsOf("9223372036854775808", 1)

\* ds without its leading zeros
RECURSIVE StripZeros(_)
StripZeros(ds) ==
    IF ds # <<>> /\ ds[1] = 0 THEN StripZeros(Tail(ds)) ELSE ds

\* ds writes a number no larger than the number limit writes (neither has
\* leading zeros)
DigitsLeq(ds, limit) ==
    IF Len(ds) # Len(limit) THEN Len(ds) < Len(limit)
    ELSE \/ ds = limit
         \/ \E i \in 1..Len(ds) :
               /\ ds[i] < limit[i]
               /\ \A j \in 1..(i - 1) : ds[j] = limit[j]

\* s is an optional sign and then decimal digits, one at least
IsDecimalInteger(s) ==
    LET signed == Len(s) > 0 /\ SubSeq(s, 1, 1) \in {"+", "-"}
        ds == DigitsOf(s, IF signed THEN 2 ELSE 1)
    IN  ds # <<>> /\ \A i \in 1..Len(ds) : ds[i] # -1

\* the decimal integer s is a number that an int64 holds
InInt64Range(s) ==
    LET signed == SubSeq(s, 1, 1) \in {"+", "-"}
        neg == SubSeq(s, 1, 1) = "-"
        ds == StripZeros(DigitsOf(s, IF signed THEN 2 ELSE 1))
    IN  DigitsLeq(ds, IF neg THEN MinInt64Digits ELSE MaxInt64Digits)

\* the number that nine decimal digits at most write
RECURSIVE ChunkValue(_)
ChunkValue(ds) ==
    IF ds = <<>> THEN 0
    ELSE 10 * ChunkValue(SubSeq(ds, 1, Len(ds) - 1)) + ds[Len(ds)]

\* the int64 that 27 decimal digits at most write, nine digits at a time
DecChunks(ds) ==
    LET n == Len(ds)
        e9 == Int64(1000 * 1000 * 1000)
        lo == ChunkValue(SubSeq(ds, Max(1, n - 8), n))
        mid == ChunkValue(SubSeq(ds, Max(1, n - 17), n - 9))
        hi == ChunkValue(SubSeq(ds, 1, n - 18))
    IN  Add64(Mul64(Add64(Mul64(Int64(hi), e9), Int64(mid)), e9), Int64(lo))

\* the int64 that is the number the decimal integer s writes, for s in range
Int64Of(s) ==
    LET signed == SubSeq(s, 1, 1) \in {"+", "-"}
        neg == SubSeq(s, 1, 1) = "-"
        n == DecChunks(StripZeros(DigitsOf(s, IF signed THEN 2 ELSE 1)))
    IN  IF neg THEN NegLimbs(n) ELSE n

\* strconv.ParseInt(s, 10, 64): an optional sign, then decimal digits only;
\* a number that 64 bits do not hold gives the nearest int64 and a range
\* error
ParseInt(s) ==
    IF ~IsDecimalInteger(s)
    THEN [n |-> Int64(0), err |-> "invalid syntax"]
    ELSE IF ~InInt64Range(s)
    THEN [n |-> IF SubSeq(s, 1, 1) = "-" THEN MinInt64 ELSE MaxInt64,
          err |-> "value out of range"]
    ELSE [n |-> Int64Of(s), err |-> "nil"]

\* the retry-after of mkErr keeping what ParseInt returned with its error
RetryAfterUnchecked(retry) ==
    IF retry = "" THEN Int64(0) ELSE ParseInt(retry).n

\* mkErr: retryAfter, from the value of the Retry-After header ("" when the
\* response has none)
RetryAfter(retry) ==
    IF retry = "" THEN Int64(0)
    ELSE LET r == ParseInt(retry)
         IN  IF r.err # "nil" THEN Int64(0) ELSE r.n

\* func mkErr(resp *http.Response) error
MkErr(resp) ==
    [kind |-> "b2err", msg |-> resp.msg, retry |-> RetryAfter(resp.retryAfter),
     code |-> resp.status, msgCode |-> resp.msgCode,
     method |-> resp.request.method]

\* errors.As(err, &x509.UnknownAuthorityError{}), and the type switch
IsUnknownAuthority(e) ==
    \/ e.kind = "x509.UnknownAuthorityError"
    \/ e.unwrap = "x509.UnknownAuthorityError"

\* the ServiceError makeNetRequest makes of a transport failure
TransportB2err(e) ==
    [kind |-> "b2err", msg |-> e.kind, retry |-> Int64(1), code |-> 0,
     msgCode |-> "", method |-> ""]

\* makeNetRequest without its case for the certificate errors
MakeNetRequestWrapsTLS(out) ==
    IF out.err = NilErr THEN [resp |-> out.resp, err |-> NilErr]
    ELSE IF /\ out.err.kind \in {"context.Canceled", "context.DeadlineExceeded"}
            /\ out.err.unwrap = ""
    THEN [resp |-> None, err |-> out.err]
    ELSE [resp |-> None, err |-> TransportB2err(out.err)]

\* makeNetRequest without its case for the context's errors
MakeNetRequestWrapsCtx(out) ==
    IF out.err = NilErr THEN [resp |-> out.resp, err |-> NilErr]
    ELSE IF IsUnknownAuthority(out.err)
    THEN [resp |-> None, err |-> out.err]
    ELSE [resp |-> None, err |-> TransportB2err(out.err)]

\* func makeNetRequest(ctx, req, rt), given what rt.RoundTrip(req) returned
MakeNetRequest(out) ==
    IF out.err = NilErr THEN [resp |-> out.resp, err |-> NilErr]
    ELSE IF /\ out.err.kind \in {"context.Canceled", "context.DeadlineExceeded"}
            /\ out.err.unwrap = ""
    THEN [resp |-> None, err |-> out.err]
    ELSE IF IsUnknownAuthority(out.err)
    THEN [resp |-> None, err |-> out.err]
    ELSE [resp |-> None, err |-> TransportB2err(out.err)]

\* the errors rt.RoundTrip returns: the context's, the two forms of a
\* certificate signed by an unknown authority, and a network error
CtxErrors ==
    {[kind |-> "context.Canceled", unwrap |-> ""],
     [kind |-> "context.DeadlineExceeded", unwrap |-> ""]}
TLSErrors ==
    {[kind |-> "x509.UnknownAuthorityError", unwrap |-> ""],
     [kind |-> "tls.CertificateVerificationError",
      unwrap |-> "x509.UnknownAuthorityError"]}
NetErrors == {[kind |-> "net.OpError", unwrap |-> "syscall.ECONNRESET"]}
TransportErrors == CtxErrors \cup TLSErrors \cup NetErrors

\* values of the Retry-After header; 9223372036854775807 is the largest int64
RetryAfters ==
    {"", "7", "-2", "soon", "9223372036854775807", "9223372036854775808"}

\* the responses rt.RoundTrip returns to the request req.  body tells
\* whether the body decodes, contentLength is the Content-Length header
\* and info tells whether the X-Bz-Info- headers unescape.
Response(req, status, retryAfter, body, contentLength, info) ==
    [status |-> status, retryAfter |-> retryAfter, msg |-> "message",
     msgCode |-> "code", body |-> body, contentLength |-> contentLength,
     info |-> info, request |-> req]
Responses(req) ==
    {Response(req, 200, "", "json", "5", "ok"),
     Response(req, 200, "", "garbage", "5", "ok"),
     Response(req, 200, "", "json", "", "ok"),
     Response(req, 200, "", "json", "5", "%zz"),
     Response(req, 206, "", "json", "5", "ok"),
     Response(req, 404, "", "json", "5", "ok")}
    \cup {Response(req, 503, ra, "json", "5", "ok") : ra \in RetryAfters}
RoundTrips(req) ==
    {[resp |-> resp, err |-> NilErr] : resp \in Responses(req)}
    \cup {[resp |-> None, err |-> e] : e \in TransportErrors}

\* the errors of the steps before and after the round trip
MarshalError == [kind |-> "json.UnsupportedTypeError", unwrap |-> ""]
NewRequestError == [kind |-> "url.Error", unwrap |-> ""]
DecodeError == [kind |-> "json.SyntaxError", unwrap |-> ""]
NumError == [kind |-> "strconv.NumError", unwrap |-> ""]
EscapeError == [kind |-> "url.EscapeError", unwrap |-> ""]

\* the arguments of makeRequest: the method, whether b2req is nil, a value
\* or a value json.Marshal rejects, whether the URI parses, and whether the
\* caller gave a b2resp
ExecMethods == {"b2_upload_part", "b2_list_buckets"}
B2Reqs == {"nil", "value", "unmarshalable"}
Uris == {"ok", "bad"}

\* a call that has begun
NewRequest(fn, method, b2resp) ==
    [pc |-> "built", fn |-> fn, method |-> method, b2resp |-> b2resp,
     req |-> None, trips |-> 0, out |-> None, resp |-> None,
     body |-> "none", decoded |-> FALSE, reader |-> FALSE, ret |-> None]

\* return err
ExecReturn(call, e) == [call EXCEPT !.pc = "returned", !.ret = e]

\* resp.Body.Close() that closes nothing
CloseNothing(body) == body

\* resp.Body.Close()
Close(body) == "closed"

InitExec ==
    /\ err = NilErr
    /\ res = <<>>
    /\ NoSession
    /\ NoExec
    /\ NoLease
    /\ NoUpdate
    /\ NoReader
    /\ NoDo
    /\ NoBackoff

CanRequest(c) ==
    /\ reqs[c].pc \in {"idle", "returned"}
    /\ nreqs < MaxRequests

\* makeRequest up to http.NewRequest: the steps that fail locally
MakeRequestBegin(c) ==
    /\ CanRequest(c)
    /\ \E method \in ExecMethods, b2req \in B2Reqs, uri \in Uris,
          b2resp \in BOOLEAN :
          LET call == NewRequest("makeRequest", method, b2resp) IN
          reqs' = [reqs EXCEPT ![c] =
                      IF b2req = "unmarshalable"
                      THEN ExecReturn(call, MarshalError)
                      ELSE IF uri = "bad"
                      THEN ExecReturn(call, NewRequestError)
                      ELSE call]
    /\ nreqs' = nreqs + 1
    /\ UNCHANGED <<reqID, issued>>
    /\ UNCHANGED NotExec

\* DownloadFileByName up to http.NewRequest
DownloadFileByNameBegin(c) ==
    /\ CanRequest(c)
    /\ \E uri \in Uris :
          LET call == NewRequest("DownloadFileByName",
                                 "b2_download_file_by_name", FALSE) IN
          reqs' = [reqs EXCEPT ![c] =
                      IF uri = "bad" THEN ExecReturn(call, NewRequestError)
                      ELSE call]
    /\ nreqs' = nreqs + 1
    /\ UNCHANGED <<reqID, issued>>
    /\ UNCHANGED NotExec

\* the stamp giving the counter's successor without storing it
StampNoStore(c) ==
    /\ reqs[c].pc = "built"
    /\ reqs' = [reqs EXCEPT ![c].pc = "stamped",
                            ![c].req = [id |-> reqID + 1,
                                        method |-> reqs[c].method]]
    /\ issued' = Append(issued, reqID + 1)
    /\ UNCHANGED <<reqID, nreqs>>
    /\ UNCHANGED NotExec

\* req.Header.Set("X-Blazer-Request-ID", atomic.AddInt64(&reqID, 1)) and
\* req.Header.Set("X-Blazer-Method", method): the caller's headers are set
\* before these two, so they do not replace them
Stamp(c) ==
    /\ reqs[c].pc = "built"
    /\ reqID' = reqID + 1
    /\ reqs' = [reqs EXCEPT ![c].pc = "stamped",
                            ![c].req = [id |-> reqID',
                                        method |-> reqs[c].method]]
    /\ issued' = Append(issued, reqID')
    /\ UNCHANGED nreqs
    /\ UNCHANGED NotExec

\* the round trip of an executor that sends the request again after a
\* failure of the transport
RoundTripAgain(c) ==
    /\ reqs[c].pc = "stamped"
    /\ \E out \in RoundTrips(reqs[c].req) :
          LET r == MakeNetRequest(out)
              call == [reqs[c] EXCEPT !.trips = @ + 1, !.out = out.err]
          IN  reqs' = [reqs EXCEPT ![c] =
                          IF r.err # NilErr /\ call.trips < 2 THEN call
                          ELSE IF r.err # NilErr THEN ExecReturn(call, r.err)
                          ELSE [call EXCEPT !.pc = "responded",
                                            !.resp = r.resp,
                                            !.body = "open"]]
    /\ UNCHANGED <<reqID, nreqs, issued>>
    /\ UNCHANGED NotExec

\* resp, err := makeNetRequest(ctx, req, o.getTransport()); if err != nil
\* the call returns err
RoundTrip(c) ==
    /\ reqs[c].pc = "stamped"
    /\ \E out \in RoundTrips(reqs[c].req) :
          LET r == MakeNetRequest(out)
              call == [reqs[c] EXCEPT !.trips = @ + 1, !.out = out.err]
          IN  reqs' = [reqs EXCEPT ![c] =
                          IF r.err # NilErr THEN ExecReturn(call, r.err)
                          ELSE [call EXCEPT !.pc = "responded",
                                            !.resp = r.resp,
                                            !.body = "open"]]
    /\ UNCHANGED <<reqID, nreqs, issued>>
    /\ UNCHANGED NotExec

\* makeRequest from defer resp.Body.Close() to its return
MakeRequestFinish(c) ==
    /\ reqs[c].pc = "responded"
    /\ reqs[c].fn = "makeRequest"
    /\ LET call == [reqs[c] EXCEPT !.body = Close(@)]
           resp == call.resp
       IN  reqs' = [reqs EXCEPT ![c] =
                       IF resp.status # 200 THEN ExecReturn(call, MkErr(resp))
                       ELSE IF call.b2resp
                       THEN ExecReturn([call EXCEPT !.decoded = TRUE],
                                       IF resp.body = "json" THEN NilErr
                                       ELSE DecodeError)
                       ELSE ExecReturn(call, NilErr)]
    /\ UNCHANGED <<reqID, nreqs, issued>>
    /\ UNCHANGED NotExec

\* DownloadFileByName from the response to its return
DownloadFileByNameFinish(c) ==
    /\ reqs[c].pc = "responded"
    /\ reqs[c].fn = "DownloadFileByName"
    /\ LET call == reqs[c]
           resp == call.resp
           closed == [call EXCEPT !.body = Close(@)]
       IN  reqs' = [reqs EXCEPT ![c] =
                       IF resp.status # 200 /\ resp.status # 206
                       THEN ExecReturn(closed, MkErr(resp))
                       ELSE IF ParseInt(resp.contentLength).err # "nil"
                       THEN ExecReturn(closed, NumError)
                       ELSE IF resp.info # "ok"
                       THEN ExecReturn(closed, EscapeError)
                       ELSE ExecReturn([call EXCEPT !.reader = TRUE], NilErr)]
    /\ UNCHANGED <<reqID, nreqs, issued>>
    /\ UNCHANGED NotExec

NextExec ==
    \/ \E c \in Callers : MakeRequestBegin(c)
    \/ \E c \in Callers : DownloadFileByNameBegin(c)
    \/ \E c \in Callers : Stamp(c)
    \/ \E c \in Callers : RoundTrip(c)
    \/ \E c \in Callers : MakeRequestFinish(c)
    \/ \E c \in Callers : DownloadFileByNameFinish(c)

SpecExec == InitExec /\ [][NextExec]_vars

(***************************************************************************)
(* Claims about the request executor, checked under SpecExec.              *)
(***************************************************************************)
\* caller c's call has returned
ReturnedCall(c) == reqs[c].pc = "returned"
\* the call's round trip ended with an error of the set errs
TransportFailed(c, errs) == ReturnedCall(c) /\ reqs[c].out \in errs

\* C21: a call whose round trip failed with a network error returns a
\* ServiceError with retry = 1, for which Action is Retry and Backoff is one
\* second; a call whose round trip failed with a certificate signed by an
\* unknown authority, in either form, returns that error itself, for which
\* Action is Punt.
C21_TransportFailure ==
    \A c \in Callers :
        /\ TransportFailed(c, NetErrors) =>
              /\ IsB2err(reqs[c].ret)
              /\ reqs[c].ret.retry = Int64(1)
              /\ Action(reqs[c].ret) = Retry
              /\ Backoff(reqs[c].ret) = Int64(Second)
        /\ TransportFailed(c, TLSErrors) =>
              /\ reqs[c].ret = reqs[c].out
              /\ Action(reqs[c].ret) = Punt

C21_Witness ==
    /\ TransportFailed("c1", NetErrors)
    /\ Action(reqs["c1"].ret) = Retry
    /\ TransportFailed("c2", TLSErrors)
    /\ reqs["c2"].out.kind = "tls.CertificateVerificationError"
    /\ Action(reqs["c2"].ret) = Punt

\* C22: a call whose round trip returned context.Canceled or
\* context.DeadlineExceeded returns that error itself, not a ServiceError,
\* and the classifier gives it Punt, a backoff of 0 and 0 retries.
C22_Cancellation ==
    \A c \in Callers :
        TransportFailed(c, CtxErrors) =>
            /\ reqs[c].ret = reqs[c].out
            /\ ~IsB2err(reqs[c].ret)
            /\ Action(reqs[c].ret) = Punt
            /\ Backoff(reqs[c].ret) = Int64(0)
            /\ MaxRetries(reqs[c].ret) = 0

C22_Witness ==
    /\ TransportFailed("c1", CtxErrors)
    /\ reqs["c1"].fn = "makeRequest"
    /\ reqs["c1"].ret.kind = "context.DeadlineExceeded"
    /\ TransportFailed("c2", CtxErrors)
    /\ reqs["c2"].fn = "DownloadFileByName"
    /\ reqs["c2"].ret.kind = "context.Canceled"

\* C23: every ServiceError a call returns has the call's method name, so
\* that MaxRetries is 20 for a failed upload or download call and
\* MaxReuploads is 5 for a failed upload call.
C23_MethodRecorded ==
    \A c \in Callers :
        (ReturnedCall(c) /\ IsB2err(reqs[c].ret)) =>
            /\ reqs[c].ret.method = reqs[c].method
            /\ reqs[c].method = "b2_upload_part" =>
                  /\ MaxRetries(reqs[c].ret) = 20
                  /\ MaxReuploads(reqs[c].ret) = 5
            /\ reqs[c].method = "b2_download_file_by_name" =>
                  MaxRetries(reqs[c].ret) = 20

\* the call returned a failure of the steps before the round trip
LocalFailure(c) ==
    ReturnedCall(c) /\ reqs[c].ret \in {MarshalError, NewRequestError}

\* C24: a call makes one round trip at most, and a call that returned a
\* failure of its encoding or of the construction of its request has made
\* none.
C24_OneRoundTrip ==
    \A c \in Callers :
        reqs[c].pc # "idle" =>
            /\ reqs[c].trips <= 1
            /\ LocalFailure(c) => reqs[c].trips = 0 /\ reqs[c].req = None
            /\ (ReturnedCall(c) /\ reqs[c].out # None) => reqs[c].trips = 1

C24_Witness ==
    /\ LocalFailure("c1")
    /\ reqs["c1"].ret = MarshalError
    /\ reqs["c1"].trips = 0
    /\ TransportFailed("c2", NetErrors)
    /\ Action(reqs["c2"].ret) = Retry
    /\ reqs["c2"].trips = 1

\* caller c's call has its request ID
Stamped(c) == reqs[c].pc # "idle" /\ reqs[c].req # None

\* C25: in every interleaving the i-th request ID issued is i, one more
\* than the one before it, and two calls never have the same request ID.
C25_RequestIDs ==
    /\ \A i \in 1..Len(issued) : issued[i] = i
    /\ \A c \in Callers :
          Stamped(c) => reqs[c].req.id \in 1..Len(issued)
    /\ \A c, d \in Callers :
          (c # d /\ Stamped(c) /\ Stamped(d)) =>
              reqs[c].req.id # reqs[d].req.id

C25_Witness ==
    /\ issued = <<1, 2>>
    /\ reqs["c1"].pc = "stamped"
    /\ reqs["c1"].fn = "makeRequest"
    /\ reqs["c1"].req.id = 2
    /\ reqs["c2"].pc = "stamped"
    /\ reqs["c2"].fn = "DownloadFileByName"
    /\ reqs["c2"].req.id = 1

\* a call of makeRequest returned after a response whose status is not 200
NonSuccess(c) ==
    /\ ReturnedCall(c)
    /\ reqs[c].fn = "makeRequest"
    /\ reqs[c].resp # None
    /\ reqs[c].resp.status # 200

\* what C26 says of the error and of the response value, the retry-after
\* apart
ServiceErrorOf(c) ==
    /\ IsB2err(reqs[c].ret)
    /\ reqs[c].ret.code = reqs[c].resp.status
    /\ reqs[c].ret.method = reqs[c].method
    /\ ~reqs[c].decoded

\* C26 as stated: after a response whose status is not 200 makeRequest
\* returns a ServiceError with the status, the method name of the call and,
\* as retry-after, the number the Retry-After header writes when it is an
\* integer and 0 when it is absent or not an integer; nothing is decoded.
C26_AsStated ==
    \A c \in Callers :
        NonSuccess(c) =>
            LET h == reqs[c].resp.retryAfter IN
            /\ ServiceErrorOf(c)
            /\ IF IsDecimalInteger(h)
               THEN InInt64Range(h) /\ reqs[c].ret.retry = Int64Of(h)
               ELSE reqs[c].ret.retry = Int64(0)

\* C26: after a response whose status is not 200 makeRequest returns a
\* ServiceError with the status, the method name of the call and, as
\* retry-after, the number the Retry-After header writes when it is a
\* decimal integer that 64 bits hold, and 0 when the header is absent, is
\* not a decimal integer or is one outside that range; nothing is decoded.
C26_NonSuccess ==
    \A c \in Callers :
        NonSuccess(c) =>
            LET h == reqs[c].resp.retryAfter IN
            /\ ServiceErrorOf(c)
            /\ IF IsDecimalInteger(h) /\ InInt64Range(h)
               THEN reqs[c].ret.retry = Int64Of(h)
               ELSE reqs[c].ret.retry = Int64(0)

C26_Witness ==
    /\ NonSuccess("c1")
    /\ reqs["c1"].resp.retryAfter = "9223372036854775807"
    /\ reqs["c1"].ret.retry = MaxInt64
    /\ reqs["c1"].method = "b2_list_buckets"
    /\ NonSuccess("c2")
    /\ reqs["c2"].resp.retryAfter = "9223372036854775808"
    /\ reqs["c2"].ret.retry = Int64(0)
    /\ reqs["c2"].ret.code = 503
    /\ reqs["c2"].b2resp

\* the call returned the open body to its caller as the FileReader
HandedOver(c) ==
    /\ reqs[c].fn = "DownloadFileByName"
    /\ reqs[c].ret = NilErr
    /\ reqs[c].reader

\* C29: when a call that obtained a response returns, the response's body
\* is closed, unless the call is a successful DownloadFileByName, which
\* returns the open body as the FileReader; no other call returns a reader.
C29_BodiesClosed ==
    \A c \in Callers :
        (ReturnedCall(c) /\ reqs[c].resp # None) =>
            IF HandedOver(c) THEN reqs[c].body = "open"
            ELSE reqs[c].body = "closed" /\ ~reqs[c].reader

C29_Witness ==
    /\ ReturnedCall("c1")
    /\ HandedOver("c1")
    /\ reqs["c1"].body = "open"
    /\ ReturnedCall("c2")
    /\ reqs["c2"].ret = DecodeError
    /\ reqs["c2"].body = "closed"

(***************************************************************************)
(* The session: B2.Update replacing it in place while a call of            *)
(* LargeFile.GetUploadPartURL reads it.                                    *)
(***************************************************************************)
\* type B2 struct
Fields ==
    {"accountID", "authToken", "apiURI", "s3URI", "downloadURI",
     "minPartSize", "opts", "bucket", "pfx"}

\* the assignments of Update, in their order
UpdateOrder ==
    <<"accountID", "authToken", "apiURI", "downloadURI", "minPartSize",
      "opts">>

\* the session before Update, and the sessions Update is given: each field
\* of n has the value it has in b or another one
OldSession == [f \in Fields |-> "old"]
NewSessions == [Fields -> {"old", "new"}]

InitUpdate ==
    /\ err = NilErr
    /\ res = <<>>
    /\ NoSession
    /\ NoExec
    /\ NoLease
    /\ NoReader
    /\ NoDo
    /\ NoBackoff
    /\ b2 = OldSession
    /\ \E n \in NewSessions : upd = [pc |-> "idle", at |-> 0, n |-> n]
    /\ rd = [pc |-> "idle", authToken |-> "", apiURI |-> ""]

\* b.Update(n) is called
UpdateCall ==
    /\ upd.pc = "idle"
    /\ upd' = [upd EXCEPT !.pc = "assigning", !.at = 1]
    /\ UNCHANGED <<b2, rd>>
    /\ UNCHANGED NotUpdate

\* the next assignment b.f = n.f of Update; Update returns after the last
UpdateAssign ==
    /\ upd.pc = "assigning"
    /\ LET f == UpdateOrder[upd.at] IN
       b2' = [b2 EXCEPT ![f] = upd.n[f]]
    /\ upd' = IF upd.at = Len(UpdateOrder)
              THEN [upd EXCEPT !.pc = "returned"]
              ELSE [upd EXCEPT !.at = @ + 1]
    /\ UNCHANGED rd
    /\ UNCHANGED NotUpdate

\* what a read of field f can give: the field's value, and while Update
\* runs, unsynchronised with the reader, also the value Update writes
ReadOf(f) ==
    {b2[f]} \cup (IF upd.pc = "assigning" THEN {upd.n[f]} ELSE {})

\* GetUploadPartURL: "Authorization": l.b2.authToken
ReadAuthToken ==
    /\ rd.pc = "idle"
    /\ \E v \in ReadOf("authToken") :
          rd' = [rd EXCEPT !.pc = "headers", !.authToken = v]
    /\ UNCHANGED <<b2, upd>>
    /\ UNCHANGED NotUpdate

\* GetUploadPartURL: l.b2.apiURI+b2types.V3api+"b2_get_upload_part_url"
ReadApiURI ==
    /\ rd.pc = "headers"
    /\ \E v \in ReadOf("apiURI") :
          rd' = [rd EXCEPT !.pc = "requested", !.apiURI = v]
    /\ UNCHANGED <<b2, upd>>
    /\ UNCHANGED NotUpdate

NextUpdate ==
    \/ UpdateCall
    \/ UpdateAssign
    \/ ReadAuthToken
    \/ ReadApiURI

SpecUpdate == InitUpdate /\ [][NextUpdate]_vars

\* C27: once Update(n) has returned, every field of the session has the
\* value it has in n.
C27_UpdateReplacesAll ==
    upd.pc = "returned" => \A f \in Fields : b2[f] = upd.n[f]

\* C28: a call that reads the session's auth token and API URI while
\* Update(n) runs has read both from the session as it was before Update or
\* both from n.
C28_AllOldOrAllNew ==
    rd.pc = "requested" =>
        \/ rd.authToken = OldSession["authToken"]
           /\ rd.apiURI = OldSession["apiURI"]
        \/ rd.authToken = upd.n["authToken"]
           /\ rd.apiURI = upd.n["apiURI"]

\* C39: for the error of every call that has returned, Backoff is not
\* negative, and is positive only when Action is Retry; here for the
\* responses whose Retry-After header is absent, negative or not an
\* integer.
C39_BackoffNotNegative ==
    \A c \in Callers :
        (/\ ReturnedCall(c)
         /\ reqs[c].resp # None
         /\ reqs[c].resp.retryAfter \in {"", "-2", "soon"})
            => /\ ~IsNeg(Backoff(reqs[c].ret))
               /\ IsPos(Backoff(reqs[c].ret)) => Action(reqs[c].ret) = Retry

\* C40: for the error of a call whose round trip failed with the context's
\* error or with a certificate signed by an unknown authority, MaxRetries
\* and MaxReuploads are both 0.
C40_NoBudget ==
    \A c \in Callers :
        TransportFailed(c, CtxErrors \cup TLSErrors) =>
            /\ MaxRetries(reqs[c].ret) = 0
            /\ MaxReuploads(reqs[c].ret) = 0

(***************************************************************************)
(* An upload lease, the FileChunk of b2_get_upload_part_url or the URL of  *)
(* b2_get_upload_url: Reload in one goroutine, an upload on the same       *)
(* lease object in another.  An endpoint or token is the number of the     *)
(* issuance it came from.                                                  *)
(***************************************************************************)
\* the most calls of Reload
MaxReloads == 2

\* the lease types, and the method Reload issues a fresh lease with
LeaseKinds == {"FileChunk", "URL"}
IssuanceMethod(kind) ==
    IF kind = "FileChunk" THEN "b2_get_upload_part_url"
    ELSE "b2_get_upload_url"

\* the lease of the k-th issuance
Issued(kind, k) == [kind |-> kind, url |-> k, token |-> k]

InitLease ==
    /\ err = NilErr
    /\ res = <<>>
    /\ NoSession
    /\ NoExec
    /\ NoUpdate
    /\ NoReader
    /\ NoDo
    /\ NoBackoff
    /\ \E kind \in LeaseKinds : lease = Issued(kind, 0)
    /\ rl = [pc |-> "idle", ncalls |-> 0, n |-> None, before |-> None,
             ret |-> None]
    /\ up = [pc |-> "idle", token |-> 0, req |-> None]
    /\ nleases = 0

\* Reload is called: GetUploadPartURL or GetUploadURL has its request in
\* flight
ReloadCall ==
    /\ rl.pc \in {"idle", "returned"}
    /\ rl.ncalls < MaxReloads
    /\ rl' = [rl EXCEPT !.pc = "issuing", !.ncalls = @ + 1, !.n = None,
                        !.before = lease, !.ret = None]
    /\ UNCHANGED <<lease, up, nleases>>
    /\ UNCHANGED NotLease

\* the issuance call failed: return err
ReloadFail ==
    /\ rl.pc = "issuing"
    /\ \E e \in RequestErrs(IssuanceMethod(lease.kind)) :
          rl' = [rl EXCEPT !.pc = "returned", !.ret = e]
    /\ UNCHANGED <<lease, up, nleases>>
    /\ UNCHANGED NotLease

\* the issuance call returned the lease n
ReloadIssued ==
    /\ rl.pc = "issuing"
    /\ nleases' = nleases + 1
    /\ rl' = [rl EXCEPT !.pc = "url", !.n = Issued(lease.kind, nleases')]
    /\ UNCHANGED <<lease, up>>
    /\ UNCHANGED NotLease

\* fc.url = n.url (url.uri = n.uri)
ReloadAssignUrl ==
    /\ rl.pc = "url"
    /\ lease' = [lease EXCEPT !.url = rl.n.url]
    /\ rl' = [rl EXCEPT !.pc = "token"]
    /\ UNCHANGED <<up, nleases>>
    /\ UNCHANGED NotLease

\* the token left as it was
AssignTokenSkipped(l, n) == l

\* fc.token = n.token (url.token = n.token)
AssignToken(l, n) == [l EXCEPT !.token = n.token]

\* the second assignment of Reload, and return nil
ReloadAssignToken ==
    /\ rl.pc = "token"
    /\ lease' = AssignToken(lease, rl.n)
    /\ rl' = [rl EXCEPT !.pc = "returned", !.ret = NilErr]
    /\ UNCHANGED <<up, nleases>>
    /\ UNCHANGED NotLease

\* what a read of the lease's field gives: its value, and while Reload is
\* at its assignments, unsynchronised with the reader, also the value
\* Reload writes
LeaseRead(f) ==
    {lease[f]} \cup (IF rl.pc \in {"url", "token"} THEN {rl.n[f]} ELSE {})

\* UploadPart (UploadFile): "Authorization": fc.token
UploadReadToken ==
    /\ up.pc \in {"idle", "sent"}
    /\ \E t \in LeaseRead("token") :
          up' = [up EXCEPT !.pc = "headers", !.token = t, !.req = None]
    /\ UNCHANGED <<lease, rl, nleases>>
    /\ UNCHANGED NotLease

\* UploadPart (UploadFile): makeRequest(ctx, method, "POST", fc.url, ...)
UploadSend ==
    /\ up.pc = "headers"
    /\ \E u \in LeaseRead("url") :
          up' = [up EXCEPT !.pc = "sent",
                           !.req = [url |-> u, token |-> up.token]]
    /\ UNCHANGED <<lease, rl, nleases>>
    /\ UNCHANGED NotLease

NextLease ==
    \/ ReloadCall
    \/ ReloadFail
    \/ ReloadIssued
    \/ ReloadAssignUrl
    \/ ReloadAssignToken
    \/ UploadReadToken
    \/ UploadSend

SpecLease == InitLease /\ [][NextLease]_vars

\* C32: when Reload has returned nil the lease's endpoint and token are
\* those of the lease just issued, the latest issuance; when it has
\* returned an error both are what they were when it was called; and
\* outside the two assignments of Reload the lease's endpoint and token
\* come from the same issuance.
C32_ReloadReplacesBoth ==
    /\ rl.pc = "returned" =>
          IF rl.ret = NilErr
          THEN /\ lease = rl.n
               /\ lease.url = nleases
               /\ lease.token = nleases
               /\ lease # rl.before
          ELSE lease = rl.before
    /\ rl.pc \notin {"url", "token"} => lease.url = lease.token

C32_Witness ==
    /\ lease.kind = "URL"
    /\ rl.pc = "returned"
    /\ rl.ncalls = 2
    /\ rl.ret # NilErr
    /\ rl.before = Issued("URL", 1)
    /\ lease = Issued("URL", 1)

\* C33: in every interleaving of Reload with an upload on the same lease,
\* the request the upload sends has an endpoint and a token of the same
\* issuance.
C33_SameIssuance ==
    up.pc = "sent" => up.req.url = up.req.token

====
